---------------------------- MODULE Spec2Model ----------------------------
(***************************************************************************)
(* Model of the citation resolver of src/script/get_signal_txt.py.         *)
(*                                                                         *)
(* A Python str is a sequence of characters.  TLA+ string literals are     *)
(* ASCII, so every character the code distinguishes is named:              *)
(*   "zh0" 零  "zhO" 〇  "zh1".."zh9" 一..九  "liang" 兩  "shi" 十  "bai" 百 *)
(*   "di" 第  "tiao" 條  "xiang" 項  "kuan" 款  "mu" 目  "zhi" 至           *)
(*   "qian" 前  "ben" 本  "fa" 法  "ji" 及  "jia" 甲                        *)
(*   "0".."9" ASCII digits   "fw1" the fullwidth digit １   "sup2" ²        *)
(*   " " a blank   "-" the hyphen   "a" a Latin letter                     *)
(*   "dun" 、  "dot" .  "fwdot" ．  "lparen" (  "rparen" )                   *)
(*   "flparen" （  "frparen" ）  "zhang" 章  "jie" 節  "yi" 乙               *)
(* Optional[T] is a sequence of length at most one: None is << >>.         *)
(* net is the sequence of requests sent to the law site during a call.     *)
(***************************************************************************)
EXTENDS Integers, Sequences, FiniteSets, TLC

VARIABLES pc, arg, ret, exc, net

vars == <<pc, arg, ret, exc, net>>

None == << >>
Some(v) == <<v>>
IsNone(o) == o = << >>
Val(o) == o[1]

(***************************************************************************)
(* Character classes.                                                      *)
(***************************************************************************)
AsciiDigits == {"0", "1", "2", "3", "4", "5", "6", "7", "8", "9"}

\* str.isdigit(): the decimal digits and also digit-like characters such as ².
IsDigitChars == AsciiDigits \cup {"fw1", "sup2"}

\* What int() and the regex class \d accept: Unicode decimal digits.
DecimalChars == AsciiDigits \cup {"fw1"}

DecimalVal(c) ==
    CASE c = "0" -> 0 [] c = "1" -> 1 [] c = "2" -> 2 [] c = "3" -> 3
      [] c = "4" -> 4 [] c = "5" -> 5 [] c = "6" -> 6 [] c = "7" -> 7
      [] c = "8" -> 8 [] c = "9" -> 9 [] c = "fw1" -> 1

Whitespace == {" "}

\* The regex range [一-龥]; 〇 (U+3007) lies outside it.
CJK == {"zh0", "zh1", "zh2", "zh3", "zh4", "zh5", "zh6", "zh7", "zh8", "zh9",
        "liang", "shi", "bai", "di", "tiao", "xiang", "kuan", "mu", "zhi",
        "qian", "ben", "fa", "ji", "jia"}

\* The regex class [一二三四五六七八九十百] of the item/kuan/mu groups.
NumeralClass == {"zh1", "zh2", "zh3", "zh4", "zh5", "zh6", "zh7", "zh8", "zh9",
                 "shi", "bai"}

ZH_DIGITS ==
    [c \in {"zh0", "zhO", "zh1", "zh2", "zh3", "zh4", "zh5", "zh6", "zh7",
            "zh8", "zh9", "liang"} |->
        CASE c = "zh0" -> 0 [] c = "zhO" -> 0 [] c = "zh1" -> 1
          [] c = "zh2" -> 2 [] c = "liang" -> 2 [] c = "zh3" -> 3
          [] c = "zh4" -> 4 [] c = "zh5" -> 5 [] c = "zh6" -> 6
          [] c = "zh7" -> 7 [] c = "zh8" -> 8 [] c = "zh9" -> 9]

ZH_UNITS == [c \in {"shi", "bai"} |-> IF c = "shi" THEN 10 ELSE 100]

(***************************************************************************)
(* str methods and int() / str().                                          *)
(***************************************************************************)
RECURSIVE LStrip(_)
LStrip(s) ==
    IF s # << >> /\ Head(s) \in Whitespace THEN LStrip(Tail(s)) ELSE s

RECURSIVE RStrip(_)
RStrip(s) ==
    IF s # << >> /\ s[Len(s)] \in Whitespace
    THEN RStrip(SubSeq(s, 1, Len(s) - 1))
    ELSE s

Strip(s) == RStrip(LStrip(s))

IsDigit(s) == s # << >> /\ \A i \in 1..Len(s) : s[i] \in IsDigitChars

IsDecimal(s) == s # << >> /\ \A i \in 1..Len(s) : s[i] \in DecimalChars

RECURSIVE DecimalValue(_)
DecimalValue(s) ==
    IF s = << >> THEN 0
    ELSE 10 * DecimalValue(SubSeq(s, 1, Len(s) - 1)) + DecimalVal(s[Len(s)])

\* int(s): blanks around the number are dropped and a leading "-" is a sign;
\* None stands for the ValueError int() raises on anything else.
PyInt(s) ==
    LET t == Strip(s)
    IN  IF IsDecimal(t) THEN Some(DecimalValue(t))
        ELSE IF t # << >> /\ Head(t) = "-" /\ IsDecimal(Tail(t))
             THEN Some(0 - DecimalValue(Tail(t)))
             ELSE None

DigitChar(d) ==
    CASE d = 0 -> "0" [] d = 1 -> "1" [] d = 2 -> "2" [] d = 3 -> "3"
      [] d = 4 -> "4" [] d = 5 -> "5" [] d = 6 -> "6" [] d = 7 -> "7"
      [] d = 8 -> "8" [] d = 9 -> "9"

RECURSIVE NatStr(_)
NatStr(n) ==
    IF n < 10 THEN <<DigitChar(n)>>
    ELSE NatStr(n \div 10) \o <<DigitChar(n % 10)>>

\* str(n) of an int.
PyStr(n) == IF n < 0 THEN <<"-">> \o NatStr(0 - n) ELSE NatStr(n)

(***************************************************************************)
(* zh_to_int.                                                              *)
(***************************************************************************)
\* The bug "total += num * unit": a bare unit counts as zero.
RECURSIVE ZhLoopNoDefaultOne(_, _, _, _)
ZhLoopNoDefaultOne(s, i, total, num) ==
    IF i > Len(s) THEN Some(total + num)
    ELSE IF s[i] \in DOMAIN ZH_DIGITS
         THEN ZhLoopNoDefaultOne(s, i + 1, total, ZH_DIGITS[s[i]])
         ELSE IF s[i] \in DOMAIN ZH_UNITS
              THEN ZhLoopNoDefaultOne(s, i + 1, total + num * ZH_UNITS[s[i]], 0)
              ELSE None

\* The bug of taking every character for a digit or a unit: an unknown
\* character is skipped instead of failing the parse.
RECURSIVE ZhLoopSkipUnknown(_, _, _, _)
ZhLoopSkipUnknown(s, i, total, num) ==
    IF i > Len(s) THEN Some(total + num)
    ELSE IF s[i] \in DOMAIN ZH_DIGITS
         THEN ZhLoopSkipUnknown(s, i + 1, total, ZH_DIGITS[s[i]])
         ELSE IF s[i] \in DOMAIN ZH_UNITS
              THEN ZhLoopSkipUnknown(s, i + 1,
                       total + (IF num # 0 THEN num ELSE 1) * ZH_UNITS[s[i]], 0)
              ELSE ZhLoopSkipUnknown(s, i + 1, total, num)

\* The while loop of zh_to_int, from index i (1-based here) on.
RECURSIVE ZhLoop(_, _, _, _)
ZhLoop(s, i, total, num) ==
    IF i > Len(s) THEN Some(total + num)
    ELSE IF s[i] \in DOMAIN ZH_DIGITS
         THEN ZhLoop(s, i + 1, total, ZH_DIGITS[s[i]])
         ELSE IF s[i] \in DOMAIN ZH_UNITS
              THEN ZhLoop(s, i + 1,
                       total + (IF num # 0 THEN num ELSE 1) * ZH_UNITS[s[i]], 0)
              ELSE None

\* zh_to_int raises (the int() of line 51 is outside the try block).
zh_to_int_raises(s0) ==
    LET s == Strip(s0) IN IsDigit(s) /\ IsNone(PyInt(s))

\* The value zh_to_int returns when it returns.
zh_to_int(s0) ==
    LET s == Strip(s0)
    IN  IF s = << >> THEN None
        ELSE IF IsDigit(s) THEN PyInt(s)
        ELSE ZhLoop(s, 1, 0, 0)

(***************************************************************************)
(* normalize_art.                                                          *)
(***************************************************************************)
\* index of the first "-" of s, or 0
RECURSIVE FindHyphen(_, _)
FindHyphen(s, i) ==
    IF i > Len(s) THEN 0
    ELSE IF s[i] = "-" THEN i ELSE FindHyphen(s, i + 1)

\* re.fullmatch(r"\d+(?:-\d+)?", s)
FullMatchFlno(s) ==
    LET h == FindHyphen(s, 1)
    IN  IF h = 0 THEN IsDecimal(s)
        ELSE /\ IsDecimal(SubSeq(s, 1, h - 1))
             /\ IsDecimal(SubSeq(s, h + 1, Len(s)))

normalize_art_raises(flno_like) ==
    LET s == Strip(flno_like) IN ~FullMatchFlno(s) /\ zh_to_int_raises(s)

\* The bug of normalising a numeric id too: "16-1" is not a numeral and is lost.
normalize_art_always_parses(flno_like) ==
    LET v == zh_to_int(Strip(flno_like))
    IN  IF IsNone(v) THEN None ELSE Some(PyStr(Val(v)))

normalize_art(flno_like) ==
    LET s == Strip(flno_like)
    IN  IF FullMatchFlno(s) THEN Some(s)
        ELSE LET v == zh_to_int(s)
             IN  IF IsNone(v) THEN None ELSE Some(PyStr(Val(v)))

(***************************************************************************)
(* compute_prev_flno.                                                      *)
(***************************************************************************)
\* The bug of dropping the "major > 1" guards: article 1 gets predecessor 0.
compute_prev_flno_unguarded(main_flno) ==
    LET h == FindHyphen(main_flno, 1)
    IN  IF h # 0
        THEN LET major == PyInt(SubSeq(main_flno, 1, h - 1))
                 minor == PyInt(SubSeq(main_flno, h + 1, Len(main_flno)))
             IN  IF IsNone(major) \/ IsNone(minor) THEN None
                 ELSE IF Val(minor) > 0 THEN Some(PyStr(Val(major)))
                 ELSE Some(PyStr(Val(major) - 1))
        ELSE LET m == PyInt(main_flno)
             IN  IF IsNone(m) THEN None ELSE Some(PyStr(Val(m) - 1))

\* main_flno.split("-", 1) cuts at the first hyphen; any exception gives None.
compute_prev_flno(main_flno) ==
    LET h == FindHyphen(main_flno, 1)
    IN  IF h # 0
        THEN LET major == PyInt(SubSeq(main_flno, 1, h - 1))
                 minor == PyInt(SubSeq(main_flno, h + 1, Len(main_flno)))
             IN  IF IsNone(major) \/ IsNone(minor) THEN None
                 ELSE IF Val(minor) > 0 THEN Some(PyStr(Val(major)))
                 ELSE IF Val(major) > 1 THEN Some(PyStr(Val(major) - 1))
                 ELSE Some(PyStr(Val(major)))
        ELSE LET m == PyInt(main_flno)
             IN  IF IsNone(m) THEN None
                 ELSE IF Val(m) > 1 THEN Some(PyStr(Val(m) - 1))
                 ELSE Some(PyStr(Val(m)))

(***************************************************************************)
(* REF_PATTERNS and the regex matching of re.finditer.                     *)
(*                                                                         *)
(* Patterns 0..6 share the head  (?:本法)?第\s*(art)\s*條  with            *)
(* art = [一-龥]+|\d+(?:-\d+)?  and differ in what follows 條:              *)
(*   range   \s*第\s*(start)\s*L\s*至\s*第\s*(end)\s*L                      *)
(*   single  \s*第\s*(num)\s*L                                             *)
(*   art     nothing                                                       *)
(* Pattern 7 is  前條(?:第(prev_nzh)\s*(prev_kind))?.                       *)
(* A pattern is a record naming its form, its level character L and its    *)
(* named groups.                                                           *)
(***************************************************************************)
REF_PATTERNS ==
    << [form |-> "range", level |-> "xiang", art |-> "art_r1",
        first |-> "itemzh_start", last |-> "itemzh_end"],
       [form |-> "single", level |-> "xiang", art |-> "art_r2",
        first |-> "itemzh", last |-> ""],
       [form |-> "range", level |-> "kuan", art |-> "art_k1",
        first |-> "kuanzh_start", last |-> "kuanzh_end"],
       [form |-> "single", level |-> "kuan", art |-> "art_k2",
        first |-> "kuanzh", last |-> ""],
       [form |-> "range", level |-> "mu", art |-> "art_m1",
        first |-> "muzh_start", last |-> "muzh_end"],
       [form |-> "single", level |-> "mu", art |-> "art_m2",
        first |-> "muzh", last |-> ""],
       [form |-> "art", level |-> "", art |-> "art_only",
        first |-> "", last |-> ""],
       [form |-> "prev", level |-> "", art |-> "",
        first |-> "prev_nzh", last |-> "prev_kind"] >>

\* REF_PATTERNS[k] with the source's 0-based index
Pattern(k) == REF_PATTERNS[k + 1]

At(t, p, c) == p >= 1 /\ p <= Len(t) /\ t[p] = c

\* the position after a greedy \s* from p
RECURSIVE SkipWs(_, _)
SkipWs(t, p) ==
    IF p <= Len(t) /\ t[p] \in Whitespace THEN SkipWs(t, p + 1) ELSE p

\* the position after the longest run of characters of class C from p
RECURSIVE RunEnd(_, _, _)
RunEnd(t, p, C) ==
    IF p <= Len(t) /\ t[p] \in C THEN RunEnd(t, p + 1, C) ELSE p

\* A match: start, end (exclusive) and the named groups; end = 0 is no match.
NoMatch == [start |-> 0, end |-> 0, groups |-> << >>]

Sub(t, a, b) == SubSeq(t, a, b - 1)

\* \s*第\s*([一二三四五六七八九十百]+)\s*L from p: <<end, group start, group end>>
LevelAt(t, p, L) ==
    LET p1 == SkipWs(t, p)
        p2 == SkipWs(t, p1 + 1)
        p3 == RunEnd(t, p2, NumeralClass)
        p4 == SkipWs(t, p3)
    IN  IF At(t, p1, "di") /\ p3 > p2 /\ At(t, p4, L)
        THEN <<p4 + 1, p2, p3>>
        ELSE <<0, 0, 0>>

\* What follows the art group ending before e: \s*條 and the pattern's tail.
\* s is the start of the whole match and a the start of the art group.
AfterArt(t, s, a, e, pat) ==
    LET p == SkipWs(t, e)
    IN  IF ~At(t, p, "tiao") THEN NoMatch
        ELSE IF pat.form = "art"
        THEN [start |-> s, end |-> p + 1,
              groups |-> (pat.art :> Some(Sub(t, a, e)))]
        ELSE LET y == LevelAt(t, p + 1, pat.level)
             IN  IF y[1] = 0 THEN NoMatch
                 ELSE IF pat.form = "single"
                 THEN [start |-> s, end |-> y[1],
                       groups |-> (pat.art :> Some(Sub(t, a, e))) @@
                                  (pat.first :> Some(Sub(t, y[2], y[3])))]
                 ELSE LET q == SkipWs(t, y[1])
                          z == LevelAt(t, q + 1, pat.level)
                      IN  IF ~At(t, q, "zhi") \/ z[1] = 0 THEN NoMatch
                          ELSE [start |-> s, end |-> z[1],
                                groups |->
                                    (pat.art :> Some(Sub(t, a, e))) @@
                                    (pat.first :> Some(Sub(t, y[2], y[3]))) @@
                                    (pat.last :> Some(Sub(t, z[2], z[3])))]

SetMax(S) == CHOOSE x \in S : \A y \in S : y <= x

\* The match of pattern 7 at s.  Groups that took no part are None.
PrevMatchAt(t, s, pat) ==
    IF ~(At(t, s, "qian") /\ At(t, s + 1, "tiao")) THEN NoMatch
    ELSE LET n == RunEnd(t, s + 3, NumeralClass)
             w == SkipWs(t, n)
         IN  IF /\ At(t, s + 2, "di") /\ n > s + 3
                /\ w <= Len(t) /\ t[w] \in {"xiang", "kuan", "mu"}
             THEN [start |-> s, end |-> w + 1,
                   groups |-> (pat.first :> Some(Sub(t, s + 3, n))) @@
                              (pat.last :> Some(<<t[w]>>))]
             ELSE [start |-> s, end |-> s + 2,
                   groups |-> (pat.first :> None) @@ (pat.last :> None)]

\* The match of a pattern that starts at s, as the backtracking matcher finds
\* it: the greedy [一-龥]+ gives characters back until the rest matches, so
\* the longest art group that lets the rest match wins; the second alternative
\* starts with a digit and has one way to match.
MatchAt(t, s, pat) ==
    IF pat.form = "prev" THEN PrevMatchAt(t, s, pat)
    ELSE
    LET q == IF At(t, s, "ben") /\ At(t, s + 1, "fa") THEN s + 2 ELSE s
        a == SkipWs(t, q + 1)
    IN  IF ~At(t, q, "di") \/ a > Len(t) THEN NoMatch
        ELSE IF t[a] \in CJK
        THEN LET ok == {e \in (a + 1)..RunEnd(t, a, CJK) :
                            AfterArt(t, s, a, e, pat).end # 0}
             IN  IF ok = {} THEN NoMatch
                 ELSE AfterArt(t, s, a, SetMax(ok), pat)
        ELSE IF t[a] \in DecimalChars
        THEN LET d == RunEnd(t, a, DecimalChars)
                 m == RunEnd(t, d + 1, DecimalChars)
                 e == IF At(t, d, "-") /\ m > d + 1 THEN m ELSE d
             IN  AfterArt(t, s, a, e, pat)
        ELSE NoMatch

\* pattern.finditer(text): the matches from left to right, each search
\* starting where the previous match ended.
RECURSIVE FindIter(_, _, _)
FindIter(t, s, pat) ==
    IF s > Len(t) THEN << >>
    ELSE LET m == MatchAt(t, s, pat)
         IN  IF m.end # 0 THEN <<m>> \o FindIter(t, m.end, pat)
             ELSE FindIter(t, s + 1, pat)

\* m.group(0)
Group0(t, m) == Sub(t, m.start, m.end)

\* m.groupdict().get(name)
GroupGet(m, name) == IF name \in DOMAIN m.groups THEN m.groups[name] ELSE None

(***************************************************************************)
(* extract_references.                                                     *)
(* The accumulator holds the function's locals refs and seen, and exc, the *)
(* exception that ended it ("" when none).                                 *)
(***************************************************************************)
ItemRangeCap == 30
KuanRangeCap == 50
MuRangeCap == 50

\* Python truth of an Optional[int] and of an Optional[str]
TruthyInt(o) == o # None /\ Val(o) # 0
TruthyStr(o) == o # None /\ Val(o) # << >>

\* The bug of a key without the qualifiers: references to one article collapse.
add_ref_key_without_qualifiers(acc, kind, flno, item, kuan, mu, hit) ==
    IF <<kind, flno>> \in acc.seen THEN acc
    ELSE [acc EXCEPT
            !.seen = @ \cup {<<kind, flno>>},
            !.refs = Append(@, [kind |-> kind, flno |-> flno, item |-> item,
                                kuan |-> kuan, mu |-> mu, hit |-> hit])]

add_ref(acc, kind, flno, item, kuan, mu, hit) ==
    IF <<kind, flno, item, kuan, mu>> \in acc.seen THEN acc
    ELSE [acc EXCEPT
            !.seen = @ \cup {<<kind, flno, item, kuan, mu>>},
            !.refs = Append(@, [kind |-> kind, flno |-> flno, item |-> item,
                                kuan |-> kuan, mu |-> mu, hit |-> hit])]

\* The bug of a sub-clause or sub-item reference that also fills item.
add_level_ref_fills_item(acc, art, level, k, hit) ==
    add_ref(acc, "explicit", art,
            Some(k),
            IF level = "kuan" THEN Some(k) ELSE None,
            IF level = "mu" THEN Some(k) ELSE None,
            hit)

\* add_ref("explicit", art, k, None, None, hit) and its kuan and mu forms
add_level_ref(acc, art, level, k, hit) ==
    add_ref(acc, "explicit", art,
            IF level = "xiang" THEN Some(k) ELSE None,
            IF level = "kuan" THEN Some(k) ELSE None,
            IF level = "mu" THEN Some(k) ELSE None,
            hit)

\* for k in range(y, z + 1): add_ref(...)
RECURSIVE AddRange(_, _, _, _, _, _)
AddRange(acc, art, level, k, z, hit) ==
    IF k > z THEN acc
    ELSE LET next == add_level_ref(acc, art, level, k, hit)
         IN  IF next.exc # "" THEN next
             ELSE AddRange(next, art, level, k + 1, z, hit)

\* The bug of never expanding: every range is taken for its start.
ExpandsRangeNever(art, y, z, cap) == FALSE

\* The bug of an unbounded expansion: the cap is not looked at.
ExpandsRangeUncapped(art, y, z, cap) ==
    TruthyStr(art) /\ TruthyInt(y) /\ TruthyInt(z) /\ Val(y) <= Val(z)

\* art and y and z and y <= z and (z - y) <= cap
ExpandsRange(art, y, z, cap) ==
    /\ TruthyStr(art) /\ TruthyInt(y) /\ TruthyInt(z)
    /\ Val(y) <= Val(z) /\ Val(z) - Val(y) <= cap

\* Steps 1, 3 and 5: the matches ms[i..] of a range pattern.  normalize_art
\* cannot raise here: an art group is all CJK or has the form \d+(-\d+)?.
RECURSIVE RangeLoop(_, _, _, _, _, _)
RangeLoop(acc, text, pat, cap, ms, i) ==
    IF i > Len(ms) THEN acc
    ELSE LET m == ms[i]
             art == normalize_art(Val(m.groups[pat.art]))
             y == zh_to_int(Val(m.groups[pat.first]))
             z == zh_to_int(Val(m.groups[pat.last]))
             hit == Group0(text, m)
             next == IF ExpandsRange(art, y, z, cap)
                     THEN AddRange(acc, Val(art), pat.level, Val(y), Val(z), hit)
                     ELSE IF TruthyStr(art) /\ TruthyInt(y)
                     THEN add_level_ref(acc, Val(art), pat.level, Val(y), hit)
                     ELSE acc
         IN  RangeLoop(next, text, pat, cap, ms, i + 1)

\* Steps 2 and 4: the matches of a single-level pattern.
RECURSIVE SingleLoop(_, _, _, _, _)
SingleLoop(acc, text, pat, ms, i) ==
    IF i > Len(ms) THEN acc
    ELSE LET m == ms[i]
             art == normalize_art(Val(m.groups[pat.art]))
             y == zh_to_int(Val(m.groups[pat.first]))
             next == IF TruthyStr(art) /\ TruthyInt(y)
                     THEN add_level_ref(acc, Val(art), pat.level, Val(y),
                                        Group0(text, m))
                     ELSE acc
         IN  SingleLoop(next, text, pat, ms, i + 1)

HasLevelWord(frag) ==
    \E j \in 1..Len(frag) : frag[j] \in {"xiang", "kuan", "mu"}

\* Step 6, lines 347-354, over the matches of REF_PATTERNS[5]: a fragment with
\* 項, 款 or 目 is skipped; for any other, m.group("art_only") names a group
\* REF_PATTERNS[5] does not have and raises IndexError (lines 358-369 sit
\* inside this loop, after that call).
RECURSIVE BareLoop(_, _, _, _, _)
BareLoop(acc, text, pat, ms, i) ==
    IF i > Len(ms) \/ acc.exc # "" THEN acc
    ELSE LET m == ms[i]
             next == IF HasLevelWord(Group0(text, m)) THEN acc
                     ELSE IF "art_only" \notin DOMAIN m.groups
                     THEN [acc EXCEPT !.exc = "IndexError"]
                     ELSE LET art == normalize_art(Val(m.groups["art_only"]))
                          IN  IF TruthyStr(art)
                              THEN add_ref(acc, "explicit", Val(art), None, None,
                                           None, Group0(text, m))
                              ELSE acc
         IN  BareLoop(next, text, pat, ms, i + 1)

\* Step 7, lines 371-386, over the matches of REF_PATTERNS[6]: the groups are
\* read with groupdict().get, which gives None for a name the pattern lacks.
RECURSIVE PrevLoop(_, _, _, _, _)
PrevLoop(acc, text, prev_target_flno, ms, i) ==
    IF i > Len(ms) THEN acc
    ELSE LET m == ms[i]
             n_raw == GroupGet(m, "prev_nzh")
             kind == GroupGet(m, "prev_kind")
             n == IF TruthyStr(n_raw) THEN zh_to_int(Val(n_raw)) ELSE None
             next == IF ~TruthyStr(prev_target_flno) THEN acc
                     ELSE add_ref(acc, "prev", Val(prev_target_flno),
                                  IF kind = Some(<<"xiang">>) THEN n ELSE None,
                                  IF kind = Some(<<"kuan">>) THEN n ELSE None,
                                  IF kind = Some(<<"mu">>) THEN n ELSE None,
                                  Group0(text, m))
         IN  PrevLoop(next, text, prev_target_flno, ms, i + 1)

\* Step k (1..7) of the body of "for ln in lines", on one line's text.  Step
\* k iterates over REF_PATTERNS[k - 1]: REF_PATTERNS[7] is never iterated over.
Step(acc, text, prev_target_flno, k) ==
    LET pat == Pattern(k - 1)
        ms == FindIter(text, 1, pat)
    IN  CASE k = 1 -> RangeLoop(acc, text, pat, ItemRangeCap, ms, 1)
          [] k = 2 -> SingleLoop(acc, text, pat, ms, 1)
          [] k = 3 -> RangeLoop(acc, text, pat, KuanRangeCap, ms, 1)
          [] k = 4 -> SingleLoop(acc, text, pat, ms, 1)
          [] k = 5 -> RangeLoop(acc, text, pat, MuRangeCap, ms, 1)
          [] k = 6 -> BareLoop(acc, text, pat, ms, 1)
          [] k = 7 -> PrevLoop(acc, text, prev_target_flno, ms, 1)

\* The body of "for ln in lines" for one line's text: steps k..7 in order,
\* ended by an exception.
RECURSIVE ProcessLine(_, _, _, _)
ProcessLine(acc, text, prev_target_flno, k) ==
    IF k > 7 \/ acc.exc # "" THEN acc
    ELSE ProcessLine(Step(acc, text, prev_target_flno, k), text,
                     prev_target_flno, k + 1)

RECURSIVE LinesLoop(_, _, _, _)
LinesLoop(acc, lines, i, prev_target_flno) ==
    IF i > Len(lines) \/ acc.exc # "" THEN acc
    ELSE LinesLoop(ProcessLine(acc, lines[i].text, prev_target_flno, 1),
                   lines, i + 1, prev_target_flno)

\* extract_references(main_flno, lines): .refs is the list returned, .exc
\* the exception raised instead.
extract_references(main_flno, lines) ==
    LinesLoop([refs |-> << >>, seen |-> {}, exc |-> ""], lines, 1,
              compute_prev_flno(main_flno))

(***************************************************************************)
(* Inputs of the numeral and identifier functions.                         *)
(***************************************************************************)
\* zh_to_int supports 1..999 (the comment above ZH_DIGITS)
MaxNumeral == 999

MaxZhLen == 3
MaxFlnoLen == 3

AllStrings(A, n) == UNION {[1..k -> A] : k \in 0..n}

ZhDigitChar(d) ==
    CASE d = 1 -> "zh1" [] d = 2 -> "zh2" [] d = 3 -> "zh3" [] d = 4 -> "zh4"
      [] d = 5 -> "zh5" [] d = 6 -> "zh6" [] d = 7 -> "zh7" [] d = 8 -> "zh8"
      [] d = 9 -> "zh9"

\* The canonical Chinese numeral of n, 1 <= n <= 999 (十二, 二十三, 一百零五,
\* 一百一十).
ZhNumeral(n) ==
    LET h == n \div 100
        t == (n % 100) \div 10
        u == n % 10
        ones == IF u = 0 THEN << >> ELSE <<ZhDigitChar(u)>>
    IN  IF h = 0
        THEN IF t = 0 THEN ones
             ELSE IF t = 1 THEN <<"shi">> \o ones
             ELSE <<ZhDigitChar(t), "shi">> \o ones
        ELSE <<ZhDigitChar(h), "bai">> \o
             (IF t = 0 THEN (IF u = 0 THEN << >> ELSE <<"zh0">> \o ones)
              ELSE <<ZhDigitChar(t), "shi">> \o ones)

ZhAlphabet == {"zh0", "zhO", "zh2", "liang", "shi", "bai", "1", "fw1", "sup2",
               " ", "ji"}

FlnoAlphabet == {"0", "1", "2", "6", "-", " ", "a"}

ZhInputs ==
    AllStrings(ZhAlphabet, MaxZhLen) \cup {ZhNumeral(n) : n \in 1..MaxNumeral}

ArtInputs ==
    AllStrings(FlnoAlphabet \cup {"fw1", "sup2", "shi"}, MaxFlnoLen)
        \cup {<<"1", "6", "-", "1">>, <<"shi", "zh6">>, <<"jia">>}

FlnoInputs ==
    AllStrings(FlnoAlphabet, MaxFlnoLen)
        \cup {<<"1", "6", "-", "1">>, <<"1", "6", "-", "0">>,
              <<"1", "0", "0", "-", "2">>}

(***************************************************************************)
(* The numeral and identifier functions, called on the inputs above.       *)
(***************************************************************************)
InitNum == pc = "idle" /\ arg = << >> /\ ret = None /\ exc = "" /\ net = << >>

Call_zh_to_int(s) ==
    /\ pc = "idle"
    /\ pc' = "zh_to_int"
    /\ arg' = s
    /\ exc' = IF zh_to_int_raises(s) THEN "ValueError" ELSE ""
    /\ ret' = zh_to_int(s)
    /\ UNCHANGED net

Call_normalize_art(s) ==
    /\ pc = "idle"
    /\ pc' = "normalize_art"
    /\ arg' = s
    /\ exc' = IF normalize_art_raises(s) THEN "ValueError" ELSE ""
    /\ ret' = normalize_art(s)
    /\ UNCHANGED net

Call_compute_prev_flno(s) ==
    /\ pc = "idle"
    /\ pc' = "compute_prev_flno"
    /\ arg' = s
    /\ exc' = ""
    /\ ret' = compute_prev_flno(s)
    /\ UNCHANGED net

Return ==
    /\ pc # "idle"
    /\ pc' = "idle"
    /\ arg' = << >>
    /\ ret' = None
    /\ exc' = ""
    /\ net' = << >>

NextNum ==
    \/ pc = "idle" /\ \E s \in ZhInputs : Call_zh_to_int(s)
    \/ pc = "idle" /\ \E s \in ArtInputs : Call_normalize_art(s)
    \/ pc = "idle" /\ \E s \in FlnoInputs : Call_compute_prev_flno(s)
    \/ Return

SpecNum == InitNum /\ [][NextNum]_vars

(***************************************************************************)
(* Inputs of extract_references: lines built from citation phrases.        *)
(***************************************************************************)
MaxIndex == 2
MaxPhrases == 2

Levels == {"xiang", "kuan", "mu"}

Cap(L) ==
    IF L = "xiang" THEN ItemRangeCap
    ELSE IF L = "kuan" THEN KuanRangeCap ELSE MuRangeCap

\* article ids as written in a citation, with the id each stands for
ArtFive == [text |-> <<"zh5">>, id |-> Some(<<"5">>)]
ArtJia == [text |-> <<"jia">>, id |-> None]
ArtSixteenOne == [text |-> <<"1", "6", "-", "1">>, id |-> Some(<<"1", "6", "-", "1">>)]
ArtSamples ==
    {ArtFive, ArtJia, ArtSixteenOne,
     [text |-> <<"5">>, id |-> Some(<<"5">>)],
     [text |-> <<"shi", "zh6">>, id |-> Some(<<"1", "6">>)]}
RangeArtSamples == {ArtFive, ArtJia, ArtSixteenOne}

\* 第A條, 第Y項, 第A條第Y項, 第A條第Y項至第Z項, 前條, 前條第N項
Cite(A) == <<"di">> \o A.text \o <<"tiao">>
Qual(n, L) == <<"di">> \o ZhNumeral(n) \o <<L>>
BarePhrase(A) == Cite(A)
SinglePhrase(A, y, L) == Cite(A) \o Qual(y, L)
RangePhrase(A, y, z, L) == Cite(A) \o Qual(y, L) \o <<"zhi">> \o Qual(z, L)
PrevPhrase == <<"qian", "tiao">>
PrevQualPhrase(n, L) == PrevPhrase \o Qual(n, L)

\* the range ends tried with a start y: below, at and above the start, at
\* and above the cap, and 40 further
RangeEnds(y, L) == {1, y, y + 1, y + 2, y + 40, y + Cap(L), y + Cap(L) + 1}

FullPhrases ==
    {BarePhrase(A) : A \in ArtSamples}
    \cup {<<"ben", "fa">> \o BarePhrase(ArtFive),
          <<"di", " ", "5", " ", "tiao", " ", "di", " ", "zh2", " ", "xiang">>}
    \cup {SinglePhrase(A, y, L) : A \in ArtSamples, y \in 1..MaxIndex, L \in Levels}
    \cup UNION {{RangePhrase(A, y, z, L) : z \in RangeEnds(y, L)} :
                   A \in RangeArtSamples, y \in 1..MaxIndex, L \in Levels}
    \cup {PrevPhrase}
    \cup {PrevQualPhrase(n, L) : n \in 1..MaxIndex, L \in Levels}

\* the phrases combined with one another
CorePhrases ==
    {BarePhrase(ArtFive), BarePhrase(ArtJia),
     SinglePhrase(ArtFive, 2, "xiang"), SinglePhrase(ArtFive, 2, "kuan"),
     SinglePhrase(ArtFive, 2, "mu"), SinglePhrase(ArtSixteenOne, 1, "xiang"),
     RangePhrase(ArtFive, 1, 3, "xiang"), RangePhrase(ArtFive, 3, 1, "xiang"),
     PrevPhrase, PrevQualPhrase(2, "xiang"), <<"ji">>}

Line(text) == [text |-> text, numbered |-> FALSE]

RECURSIVE ConcatAll(_)
ConcatAll(ps) == IF ps = << >> THEN << >> ELSE Head(ps) \o ConcatAll(Tail(ps))

\* one phrase alone; or several core phrases, in one line or a line each
RefInputs ==
    {<<Line(p)>> : p \in FullPhrases}
    \cup UNION {{<<Line(ConcatAll(ps))>> : ps \in [1..k -> CorePhrases]} :
                   k \in 2..MaxPhrases}
    \cup UNION {{[i \in 1..k |-> Line(ps[i])] : ps \in [1..k -> CorePhrases]} :
                   k \in 2..MaxPhrases}

MainFlnos == {<<"1", "6">>, <<"1", "6", "-", "1">>, <<"1">>, << >>}

(***************************************************************************)
(* extract_references, called on the inputs above.                         *)
(***************************************************************************)
Call_extract_references(main_flno, lines) ==
    /\ pc = "idle"
    /\ pc' = "extract_references"
    /\ arg' = [main_flno |-> main_flno, lines |-> lines]
    /\ \E r \in {extract_references(main_flno, lines)} :
           ret' = r.refs /\ exc' = r.exc
    /\ UNCHANGED net

NextRef ==
    \/ pc = "idle" /\ \E f \in MainFlnos, ls \in RefInputs :
                           Call_extract_references(f, ls)
    \/ Return

SpecRef == InitNum /\ [][NextRef]_vars

(***************************************************************************)
(* pick_item_text, pick_kuan_text, pick_mu_text.  A line is a record       *)
(* [text, numbered]; idx is an Optional[int].                              *)
(***************************************************************************)
\* KUAN_PREFIX_RE.match(text): ^(?:[一二三四五六七八九十百]+、|\d+[\.．])
KUAN_PREFIX_RE(text) ==
    \/ RunEnd(text, 1, NumeralClass) > 1
           /\ At(text, RunEnd(text, 1, NumeralClass), "dun")
    \/ RunEnd(text, 1, DecimalChars) > 1
           /\ \/ At(text, RunEnd(text, 1, DecimalChars), "dot")
              \/ At(text, RunEnd(text, 1, DecimalChars), "fwdot")

\* MU_PREFIX_RE.match(text): ^(?:[（(][一二三四五六七八九十百]+[)）]|\d+[\.．])
MU_PREFIX_RE(text) ==
    \/ /\ At(text, 1, "lparen") \/ At(text, 1, "flparen")
       /\ RunEnd(text, 2, NumeralClass) > 2
       /\ \/ At(text, RunEnd(text, 2, NumeralClass), "rparen")
          \/ At(text, RunEnd(text, 2, NumeralClass), "frparen")
    \/ RunEnd(text, 1, DecimalChars) > 1
           /\ \/ At(text, RunEnd(text, 1, DecimalChars), "dot")
              \/ At(text, RunEnd(text, 1, DecimalChars), "fwdot")

IsNumbered(L) == L.numbered
IsKuan(L) == KUAN_PREFIX_RE(L.text)
IsMu(L) == MU_PREFIX_RE(L.text)

\* if not lines or idx is None or idx < 1
NothingToPick(lines, idx) == lines = << >> \/ idx = None \/ Val(idx) < 1

\* The bug of no fallback to the unfiltered lines.
pick_item_text_without_fallback(lines, idx) ==
    IF NothingToPick(lines, idx) THEN None
    ELSE IF SelectSeq(lines, IsNumbered) # << >>
                /\ Val(idx) <= Len(SelectSeq(lines, IsNumbered))
         THEN Some(SelectSeq(lines, IsNumbered)[Val(idx)].text)
         ELSE None

pick_item_text(lines, idx) ==
    IF NothingToPick(lines, idx) THEN None
    ELSE IF SelectSeq(lines, IsNumbered) # << >>
                /\ Val(idx) <= Len(SelectSeq(lines, IsNumbered))
         THEN Some(SelectSeq(lines, IsNumbered)[Val(idx)].text)
         ELSE IF Val(idx) <= Len(lines) THEN Some(lines[Val(idx)].text)
         ELSE None

\* The bug of a sub-clause fallback to the unfiltered lines.
pick_kuan_text_with_fallback(lines, idx) ==
    IF NothingToPick(lines, idx) THEN None
    ELSE IF SelectSeq(lines, IsKuan) # << >>
                /\ Val(idx) <= Len(SelectSeq(lines, IsKuan))
         THEN Some(SelectSeq(lines, IsKuan)[Val(idx)].text)
         ELSE IF Val(idx) <= Len(lines) THEN Some(lines[Val(idx)].text)
         ELSE None

pick_kuan_text(lines, idx) ==
    IF NothingToPick(lines, idx) THEN None
    ELSE IF SelectSeq(lines, IsKuan) # << >>
                /\ Val(idx) <= Len(SelectSeq(lines, IsKuan))
         THEN Some(SelectSeq(lines, IsKuan)[Val(idx)].text)
         ELSE None

pick_mu_text(lines, idx) ==
    IF NothingToPick(lines, idx) THEN None
    ELSE IF SelectSeq(lines, IsMu) # << >>
                /\ Val(idx) <= Len(SelectSeq(lines, IsMu))
         THEN Some(SelectSeq(lines, IsMu)[Val(idx)].text)
         ELSE None

(***************************************************************************)
(* fetch_ref_articles.  The answer of the law site to one request is       *)
(* "HTTPError" (fetch_single_by_pcode_flno raises), "RuntimeError"         *)
(* (parse_single_row_html finds no row) or the parsed page, a record       *)
(* [kind |-> "page", no_text, flno, lines].                                *)
(***************************************************************************)
DefaultMaxRefs == 20

\* refs[:max_refs]
SlicePrefixWhole(refs, max_refs) == refs

SlicePrefix(refs, max_refs) ==
    IF max_refs >= 0
    THEN SubSeq(refs, 1, IF max_refs < Len(refs) THEN max_refs ELSE Len(refs))
    ELSE SubSeq(refs, 1, Len(refs) + max_refs)

\* the url built by fetch_single_by_pcode_flno
LawSingleUrl(pcode, flno) == [pcode |-> Strip(pcode), flno |-> Strip(flno)]

\* chosen_text and chosen_level after the three "if" statements
ChosenItem(lines, r) ==
    IF TruthyInt(r.item)
    THEN [text |-> pick_item_text(lines, r.item), level |-> Some("item")]
    ELSE [text |-> None, level |-> None]

ChosenKuan(lines, r) ==
    IF ~TruthyStr(ChosenItem(lines, r).text) /\ TruthyInt(r.kuan)
    THEN [text |-> pick_kuan_text(lines, r.kuan), level |-> Some("kuan")]
    ELSE ChosenItem(lines, r)

Chosen(lines, r) ==
    IF ~TruthyStr(ChosenKuan(lines, r).text) /\ TruthyInt(r.mu)
    THEN [text |-> pick_mu_text(lines, r.mu), level |-> Some("mu")]
    ELSE ChosenKuan(lines, r)

\* The bug of returning the lines of the article with every entry.
SuccessEntryWithLines(pcode, r, page) ==
    [ref_text |-> r.hit,
     target_flno |-> page.flno,
     target_no_text |-> page.no_text,
     url |-> LawSingleUrl(pcode, r.flno),
     item_index |-> r.item,
     kuan_index |-> r.kuan,
     mu_index |-> r.mu,
     selected_level |-> Chosen(page.lines, r).level,
     selected_text |-> Chosen(page.lines, r).text,
     lines |-> Some(page.lines)]

\* the entry appended in the try block
SuccessEntry(pcode, r, page) ==
    [ref_text |-> r.hit,
     target_flno |-> page.flno,
     target_no_text |-> page.no_text,
     url |-> LawSingleUrl(pcode, r.flno),
     item_index |-> r.item,
     kuan_index |-> r.kuan,
     mu_index |-> r.mu,
     selected_level |-> Chosen(page.lines, r).level,
     selected_text |-> Chosen(page.lines, r).text,
     lines |-> IF TruthyStr(Chosen(page.lines, r).text) THEN None
               ELSE Some(page.lines)]

\* the entry appended in the except block
ErrorEntry(r, answer) ==
    [ref_text |-> r.hit, target_flno |-> Some(r.flno), error |-> answer.kind]

EntryFor(pcode, r, answer) ==
    IF answer.kind = "page" THEN SuccessEntry(pcode, r, answer)
    ELSE ErrorEntry(r, answer)

\* The bug of a failed fetch ending the loop.
RECURSIVE FetchLoopStopsAtFailure(_, _, _, _, _)
FetchLoopStopsAtFailure(acc, pcode, todo, answers, i) ==
    IF i > Len(todo) THEN acc
    ELSE IF answers[i].kind # "page"
         THEN [results |-> Append(acc.results, EntryFor(pcode, todo[i], answers[i])),
               sent |-> Append(acc.sent, LawSingleUrl(pcode, todo[i].flno))]
         ELSE FetchLoopStopsAtFailure(
                  [results |-> Append(acc.results, EntryFor(pcode, todo[i], answers[i])),
                   sent |-> Append(acc.sent, LawSingleUrl(pcode, todo[i].flno))],
                  pcode, todo, answers, i + 1)

\* The bug of results collected in reverse.
RECURSIVE FetchLoopPrepends(_, _, _, _, _)
FetchLoopPrepends(acc, pcode, todo, answers, i) ==
    IF i > Len(todo) THEN acc
    ELSE FetchLoopPrepends(
             [results |-> <<EntryFor(pcode, todo[i], answers[i])>> \o acc.results,
              sent |-> Append(acc.sent, LawSingleUrl(pcode, todo[i].flno))],
             pcode, todo, answers, i + 1)

\* for r in refs[:max_refs]: one request, one entry
RECURSIVE FetchLoop(_, _, _, _, _)
FetchLoop(acc, pcode, todo, answers, i) ==
    IF i > Len(todo) THEN acc
    ELSE FetchLoop(
             [results |-> Append(acc.results, EntryFor(pcode, todo[i], answers[i])),
              sent |-> Append(acc.sent, LawSingleUrl(pcode, todo[i].flno))],
             pcode, todo, answers, i + 1)

fetch_ref_articles(pcode, refs, max_refs, answers) ==
    FetchLoop([results |-> << >>, sent |-> << >>], pcode,
              SlicePrefix(refs, max_refs), answers, 1)

(***************************************************************************)
(* Inputs of the pick functions and of fetch_ref_articles.                 *)
(***************************************************************************)
MaxLines == 3
MaxRefs == 3

\* 甲 ; 一、甲 ; （二） ; 1.甲 ; 三甲, as numbered or unnumbered lines
LineSamples ==
    {[text |-> <<"jia">>, numbered |-> TRUE],
     [text |-> <<"jia">>, numbered |-> FALSE],
     [text |-> <<"zh1", "dun", "jia">>, numbered |-> FALSE],
     [text |-> <<"flparen", "zh2", "rparen">>, numbered |-> FALSE],
     [text |-> <<"1", "dot", "jia">>, numbered |-> TRUE],
     [text |-> <<"zh3", "jia">>, numbered |-> FALSE]}

LineLists == UNION {[1..n -> LineSamples] : n \in 0..MaxLines}

\* None, 0, and 1 .. MaxLines + 1
IdxInputs == {None} \cup {Some(i) : i \in 0..(MaxLines + 1)}

Pcode == <<"a">>

\* what extract_references can return: distinct references
RefSamples ==
    {[kind |-> "explicit", flno |-> <<"5">>, item |-> Some(1), kuan |-> None,
      mu |-> None, hit |-> SinglePhrase(ArtFive, 1, "xiang")],
     [kind |-> "explicit", flno |-> <<"5">>, item |-> Some(3), kuan |-> None,
      mu |-> None, hit |-> SinglePhrase(ArtFive, 3, "xiang")],
     [kind |-> "explicit", flno |-> <<"5">>, item |-> None, kuan |-> Some(2),
      mu |-> None, hit |-> SinglePhrase(ArtFive, 2, "kuan")],
     [kind |-> "explicit", flno |-> <<"1", "6", "-", "1">>, item |-> None,
      kuan |-> None, mu |-> Some(1), hit |-> SinglePhrase(ArtSixteenOne, 1, "mu")],
     [kind |-> "prev", flno |-> <<"1", "5">>, item |-> None, kuan |-> None,
      mu |-> None, hit |-> BarePhrase(ArtFive)]}

RefLists ==
    UNION {{rs \in [1..n -> RefSamples] :
                \A i, j \in 1..n : rs[i] = rs[j] => i = j} : n \in 0..MaxRefs}

\* the --max-refs values: negative, zero, small, and the default
Budgets == {-1, 0, 1, 2, DefaultMaxRefs}

Answers ==
    {[kind |-> "HTTPError"],
     [kind |-> "RuntimeError"],
     [kind |-> "page", no_text |-> Some(<<"di", " ", "5", " ", "tiao">>),
      flno |-> Some(<<"5">>),
      lines |-> <<[text |-> <<"jia">>, numbered |-> TRUE],
                  [text |-> <<"zh1", "dun", "jia">>, numbered |-> FALSE],
                  [text |-> <<"flparen", "zh2", "rparen">>, numbered |-> FALSE]>>],
     [kind |-> "page", no_text |-> Some(<<"di", " ", "5", " ", "tiao">>),
      flno |-> Some(<<"5">>),
      lines |-> <<[text |-> <<"zh1", "dun", "jia">>, numbered |-> FALSE],
                  [text |-> <<"1", "dot", "jia">>, numbered |-> FALSE]>>],
     [kind |-> "page", no_text |-> None, flno |-> None, lines |-> << >>]}

(***************************************************************************)
(* SpecFetch: the pick functions and fetch_ref_articles.                   *)
(***************************************************************************)
Call_pick_item_text(lines, idx) ==
    /\ pc = "idle"
    /\ pc' = "pick_item_text"
    /\ arg' = [lines |-> lines, idx |-> idx]
    /\ ret' = pick_item_text(lines, idx)
    /\ exc' = ""
    /\ UNCHANGED net

Call_pick_kuan_text(lines, idx) ==
    /\ pc = "idle"
    /\ pc' = "pick_kuan_text"
    /\ arg' = [lines |-> lines, idx |-> idx]
    /\ ret' = pick_kuan_text(lines, idx)
    /\ exc' = ""
    /\ UNCHANGED net

Call_pick_mu_text(lines, idx) ==
    /\ pc = "idle"
    /\ pc' = "pick_mu_text"
    /\ arg' = [lines |-> lines, idx |-> idx]
    /\ ret' = pick_mu_text(lines, idx)
    /\ exc' = ""
    /\ UNCHANGED net

Call_fetch_ref_articles(pcode, refs, max_refs, answers) ==
    /\ pc = "idle"
    /\ pc' = "fetch_ref_articles"
    /\ arg' = [pcode |-> pcode, refs |-> refs, max_refs |-> max_refs,
               answers |-> answers]
    /\ \E r \in {fetch_ref_articles(pcode, refs, max_refs, answers)} :
           ret' = r.results /\ net' = r.sent
    /\ exc' = ""

NextFetch ==
    \/ pc = "idle" /\ \E ls \in LineLists, idx \in IdxInputs :
                           Call_pick_item_text(ls, idx)
    \/ pc = "idle" /\ \E ls \in LineLists, idx \in IdxInputs :
                           Call_pick_kuan_text(ls, idx)
    \/ pc = "idle" /\ \E ls \in LineLists, idx \in IdxInputs :
                           Call_pick_mu_text(ls, idx)
    \/ pc = "idle" /\ \E refs \in RefLists, b \in Budgets :
                           \E answers \in [1..Len(SlicePrefix(refs, b)) -> Answers] :
                               Call_fetch_ref_articles(Pcode, refs, b, answers)
    \/ Return

SpecFetch == InitNum /\ [][NextFetch]_vars

(***************************************************************************)
(* parse_reg_content and parse_law_content.  root is the Optional list of  *)
(* the children of div.law-reg-content; a child is a record with kind      *)
(*   "text"     a string between the elements (node.name is None)          *)
(*   "chapter"  div.h3.char-2 with its title                               *)
(*   "section"  div.h3.char-3 with its title                               *)
(*   "row"      div.row with no_a, the Optional anchor [name, text] of     *)
(*              .col-no, and art_box, the Optional list of the divs        *)
(*              [line, text] of .law-article                               *)
(* The parse state holds chapters and flat_articles; current_ch is the     *)
(* position of the current chapter in chapters and current_sec that of the *)
(* current section in its sections, 0 for None.                            *)
(***************************************************************************)
\* re.sub(r"\s+", " ", txt)
RECURSIVE CollapseWs(_)
CollapseWs(s) ==
    IF s = << >> THEN << >>
    ELSE IF Head(s) \in Whitespace
         THEN <<" ">> \o CollapseWs(LStrip(s))
         ELSE <<Head(s)>> \o CollapseWs(Tail(s))

\* get_text(" ", strip=True) followed by the re.sub
LineText(d) == CollapseWs(Strip(d.text))

\* line_div.get("class") and any(c.startswith("line-") ...) and txt
IsTextLine(d) == d.line /\ LineText(d) # << >>

InitParse ==
    [chapters |-> << >>, flat_articles |-> << >>, current_ch |-> 0,
     current_sec |-> 0, article_count |-> 0]

ensure_chapter(st, title) ==
    [st EXCEPT
        !.chapters = Append(@, [title |-> title, sections |-> << >>,
                                articles |-> << >>]),
        !.current_ch = Len(st.chapters) + 1]

\* The bug of a section before any chapter that finds no chapter to hold it:
\* every such section opens one more empty-titled chapter.
ensure_section_new_chapter_each(st, title) ==
    IF st.current_ch = 0 \/ st.chapters[st.current_ch].title = << >>
    THEN [ensure_chapter(st, << >>) EXCEPT
            !.chapters[Len(st.chapters) + 1].sections =
                <<[title |-> title, articles |-> << >>]>>,
            !.current_sec = 1]
    ELSE [st EXCEPT
            !.chapters[st.current_ch].sections =
                Append(@, [title |-> title, articles |-> << >>]),
            !.current_sec = Len(st.chapters[st.current_ch].sections) + 1]

ensure_section(st, title) ==
    IF st.current_ch = 0
    THEN [ensure_chapter(st, << >>) EXCEPT
            !.chapters[Len(st.chapters) + 1].sections =
                <<[title |-> title, articles |-> << >>]>>,
            !.current_sec = 1]
    ELSE [st EXCEPT
            !.chapters[st.current_ch].sections =
                Append(@, [title |-> title, articles |-> << >>]),
            !.current_sec = Len(st.chapters[st.current_ch].sections) + 1]

\* the chapter heading: ensure_chapter(...); current_sec = None
ChapterHeading(st, node) ==
    [ensure_chapter(st, Strip(node.title)) EXCEPT !.current_sec = 0]

SectionHeading(st, node) == ensure_section(st, Strip(node.title))

\* if not no_a or not art_box: continue
RowSkipped(node) == node.no_a = None \/ node.art_box = None

\* The bug of a row put in the tree only.
AddArticleTreeOnly(st, item) ==
    IF st.current_sec # 0
    THEN [st EXCEPT
            !.article_count = @ + 1,
            !.chapters[st.current_ch].sections[st.current_sec].articles =
                Append(@, item)]
    ELSE IF st.current_ch # 0
    THEN [st EXCEPT
            !.article_count = @ + 1,
            !.chapters[st.current_ch].articles = Append(@, item)]
    ELSE [ensure_chapter(st, << >>) EXCEPT
            !.article_count = @ + 1,
            !.chapters[Len(st.chapters) + 1].articles = <<item>>]

\* The bug of going back to the first chapter with every article.
AddArticleToFirstChapter(st, item) ==
    IF st.current_ch # 0
    THEN [st EXCEPT
            !.flat_articles = Append(@, item),
            !.article_count = @ + 1,
            !.chapters[1].articles = Append(@, item)]
    ELSE [ensure_chapter(st, << >>) EXCEPT
            !.flat_articles = Append(@, item),
            !.article_count = @ + 1,
            !.chapters[Len(st.chapters) + 1].articles = <<item>>]

\* The bug of a flat list built in reverse.
AddArticleFlatFirst(st, item) ==
    IF st.current_sec # 0
    THEN [st EXCEPT
            !.flat_articles = <<item>> \o @,
            !.article_count = @ + 1,
            !.chapters[st.current_ch].sections[st.current_sec].articles =
                Append(@, item)]
    ELSE IF st.current_ch # 0
    THEN [st EXCEPT
            !.flat_articles = <<item>> \o @,
            !.article_count = @ + 1,
            !.chapters[st.current_ch].articles = Append(@, item)]
    ELSE [ensure_chapter(st, << >>) EXCEPT
            !.flat_articles = <<item>> \o @,
            !.article_count = @ + 1,
            !.chapters[Len(st.chapters) + 1].articles = <<item>>]

\* flat_articles.append(item) and the append to the section, the chapter or
\* a new chapter with the empty title
AddArticle(st, item) ==
    IF st.current_sec # 0
    THEN [st EXCEPT
            !.flat_articles = Append(@, item),
            !.article_count = @ + 1,
            !.chapters[st.current_ch].sections[st.current_sec].articles =
                Append(@, item)]
    ELSE IF st.current_ch # 0
    THEN [st EXCEPT
            !.flat_articles = Append(@, item),
            !.article_count = @ + 1,
            !.chapters[st.current_ch].articles = Append(@, item)]
    ELSE [ensure_chapter(st, << >>) EXCEPT
            !.flat_articles = Append(@, item),
            !.article_count = @ + 1,
            !.chapters[Len(st.chapters) + 1].articles = <<item>>]

\* no_a.get("name", "").strip()
AnchorFlno(a) == IF a.name = None THEN << >> ELSE Strip(Val(a.name))

CurrentChapterTitle(st) ==
    IF st.current_ch # 0 THEN Some(st.chapters[st.current_ch].title) ELSE None

CurrentSectionTitle(st) ==
    IF st.current_sec # 0
    THEN Some(st.chapters[st.current_ch].sections[st.current_sec].title)
    ELSE None

\* parse_reg_content: the lines of an article
RegLines(divs) ==
    [i \in 1..Len(SelectSeq(divs, IsTextLine)) |->
        LineText(SelectSeq(divs, IsTextLine)[i])]

RegItem(st, node) ==
    [flno |-> AnchorFlno(Val(node.no_a)),
     no_text |-> Strip(Val(node.no_a).text),
     text_lines |-> RegLines(Val(node.art_box)),
     chapter |-> CurrentChapterTitle(st),
     section |-> CurrentSectionTitle(st)]

\* the body of "for node in root.children" of parse_reg_content
RegNode(st, node) ==
    CASE node.kind = "chapter" -> ChapterHeading(st, node)
      [] node.kind = "section" -> SectionHeading(st, node)
      [] node.kind = "row" ->
            IF RowSkipped(node) THEN st ELSE AddArticle(st, RegItem(st, node))
      [] OTHER -> st

RECURSIVE RegLoop(_, _, _)
RegLoop(st, nodes, i) ==
    IF i > Len(nodes) THEN st
    ELSE RegLoop(RegNode(st, nodes[i]), nodes, i + 1)

\* The bug of an empty result for a page without div.law-reg-content.
parse_reg_content_without_root_check(root) ==
    IF root = None
    THEN [result |-> Some([chapters |-> << >>, flat_articles |-> << >>]),
          exc |-> ""]
    ELSE [result |-> Some([chapters |-> RegLoop(InitParse, Val(root), 1).chapters,
                           flat_articles |->
                               RegLoop(InitParse, Val(root), 1).flat_articles]),
          exc |-> ""]

parse_reg_content(root) ==
    IF root = None THEN [result |-> None, exc |-> "RuntimeError"]
    ELSE [result |-> Some([chapters |-> RegLoop(InitParse, Val(root), 1).chapters,
                           flat_articles |->
                               RegLoop(InitParse, Val(root), 1).flat_articles]),
          exc |-> ""]

\* parse_law_content: the lines of an article; summary mode keeps the first
RECURSIVE LawLines(_, _, _, _)
LawLines(divs, i, lines, summary_mode) ==
    IF i > Len(divs) THEN lines
    ELSE IF IsTextLine(divs[i])
         THEN IF summary_mode /\ Len(lines) >= 1 THEN lines
              ELSE LawLines(divs, i + 1, Append(lines, LineText(divs[i])),
                            summary_mode)
         ELSE LawLines(divs, i + 1, lines, summary_mode)

\* item, with truncated for the presence of the key "truncated"
LawItem(st, node, summary_mode) ==
    [flno |-> AnchorFlno(Val(node.no_a)),
     no_text |-> Strip(Val(node.no_a).text),
     text_lines |-> LawLines(Val(node.art_box), 1, << >>, summary_mode),
     chapter |-> CurrentChapterTitle(st),
     section |-> CurrentSectionTitle(st),
     truncated |-> summary_mode
                     /\ Len(Val(node.art_box))
                            > Len(LawLines(Val(node.art_box), 1, << >>, summary_mode))]

\* the body of "for node in root.children" of parse_law_content
LawNode(st, node, summary_mode) ==
    CASE node.kind = "chapter" -> ChapterHeading(st, node)
      [] node.kind = "section" -> SectionHeading(st, node)
      [] node.kind = "row" ->
            IF RowSkipped(node) THEN st
            ELSE AddArticle(st, LawItem(st, node, summary_mode))
      [] OTHER -> st

\* The bug of a limit that is never looked at.
LimitReachedNever(st, max_articles) == FALSE

\* if max_articles > 0 and article_count >= max_articles: break
LimitReached(st, max_articles) ==
    max_articles > 0 /\ st.article_count >= max_articles

RECURSIVE LawLoop(_, _, _, _, _)
LawLoop(st, nodes, i, summary_mode, max_articles) ==
    IF i > Len(nodes) THEN st
    ELSE IF nodes[i].kind = "text"
         THEN LawLoop(st, nodes, i + 1, summary_mode, max_articles)
         ELSE IF LimitReached(st, max_articles) THEN st
              ELSE LawLoop(LawNode(st, nodes[i], summary_mode), nodes, i + 1,
                           summary_mode, max_articles)

LawMeta(st, summary_mode, max_articles) ==
    IF summary_mode \/ max_articles > 0
    THEN Some([total_parsed |-> Len(st.flat_articles),
               summary_mode |-> summary_mode,
               max_articles |-> max_articles])
    ELSE None

LawResult(st, summary_mode, max_articles) ==
    [chapters |-> st.chapters, flat_articles |-> st.flat_articles,
     meta |-> LawMeta(st, summary_mode, max_articles)]

parse_law_content(root, summary_mode, max_articles) ==
    IF root = None THEN [result |-> None, exc |-> "RuntimeError"]
    ELSE [result |-> Some(LawResult(LawLoop(InitParse, Val(root), 1,
                                            summary_mode, max_articles),
                                    summary_mode, max_articles)),
          exc |-> ""]

(***************************************************************************)
(* Inputs of the two parsers: the children are built by position, so that  *)
(* every heading and every row has its own title and number.               *)
(***************************************************************************)
MaxNodes == 4

\* "broken" is a row without anchor, without box or without name on its
\* anchor, by its position
NodeKinds == {"text", "chapter", "section", "row", "broken"}

\* 甲 and 乙 as two lines; or a container, 甲 with blanks, and an empty line
BoxAt(i) ==
    IF i % 2 = 1
    THEN <<[line |-> TRUE, text |-> <<"jia">>], [line |-> TRUE, text |-> <<"yi">>]>>
    ELSE <<[line |-> FALSE, text |-> <<"jia">>],
           [line |-> TRUE, text |-> <<" ", "jia", " ", " ", "yi">>],
           [line |-> TRUE, text |-> <<" ">>]>>

AnchorText(i) == <<"di", " ", DigitChar(i), " ", "tiao">>

NodeAt(i, k) ==
    CASE k = "text" -> [kind |-> "text"]
      [] k = "chapter" -> [kind |-> "chapter", title |-> <<" ", "zhang", DigitChar(i)>>]
      [] k = "section" -> [kind |-> "section", title |-> <<"jie", DigitChar(i)>>]
      [] k = "row" ->
            [kind |-> "row",
             no_a |-> Some([name |-> Some(<<DigitChar(i), " ">>), text |-> AnchorText(i)]),
             art_box |-> Some(BoxAt(i))]
      [] k = "broken" /\ i % 3 = 1 ->
            [kind |-> "row", no_a |-> None, art_box |-> Some(BoxAt(i))]
      [] k = "broken" /\ i % 3 = 2 ->
            [kind |-> "row",
             no_a |-> Some([name |-> Some(<<DigitChar(i)>>), text |-> AnchorText(i)]),
             art_box |-> None]
      [] k = "broken" /\ i % 3 = 0 ->
            [kind |-> "row",
             no_a |-> Some([name |-> None, text |-> AnchorText(i)]),
             art_box |-> Some(BoxAt(i))]

Roots ==
    {None}
    \cup UNION {{Some([i \in 1..n |-> NodeAt(i, ks[i])]) : ks \in [1..n -> NodeKinds]} :
                   n \in 0..MaxNodes}

\* max_articles: no limit, one, two
Limits == {0, 1, 2}

(***************************************************************************)
(* SpecParse: parse_reg_content and parse_law_content.                     *)
(***************************************************************************)
Call_parse_reg_content(root) ==
    /\ pc = "idle"
    /\ pc' = "parse_reg_content"
    /\ arg' = [root |-> root]
    /\ \E r \in {parse_reg_content(root)} : ret' = r.result /\ exc' = r.exc
    /\ UNCHANGED net

Call_parse_law_content(root, summary_mode, max_articles) ==
    /\ pc = "idle"
    /\ pc' = "parse_law_content"
    /\ arg' = [root |-> root, summary_mode |-> summary_mode,
               max_articles |-> max_articles]
    /\ \E r \in {parse_law_content(root, summary_mode, max_articles)} :
           ret' = r.result /\ exc' = r.exc
    /\ UNCHANGED net

NextParse ==
    \/ pc = "idle" /\ \E root \in Roots : Call_parse_reg_content(root)
    \/ pc = "idle" /\ \E root \in Roots, s \in BOOLEAN, n \in Limits :
                           Call_parse_law_content(root, s, n)
    \/ Return

SpecParse == InitNum /\ [][NextParse]_vars

(***************************************************************************)
(* Properties of the numeral and identifier functions (SpecNum).           *)
(***************************************************************************)
RECURSIVE Pow10(_)
Pow10(k) == IF k = 0 THEN 1 ELSE 10 * Pow10(k - 1)

RECURSIVE PlaceSum(_, _)
PlaceSum(s, i) ==
    IF i > Len(s) THEN 0
    ELSE DecimalVal(s[i]) * Pow10(Len(s) - i) + PlaceSum(s, i + 1)

\* the number an ASCII digit string denotes, by place value
PlaceValue(s) == PlaceSum(s, 1)

IsAsciiDigits(s) == s # << >> /\ \A i \in 1..Len(s) : s[i] \in AsciiDigits

\* a decimal string as str() writes it: no leading zero
IsCanonicalDecimal(s) == IsAsciiDigits(s) /\ (Len(s) > 1 => s[1] # "0")

ZhChars == DOMAIN ZH_DIGITS \cup DOMAIN ZH_UNITS

\* What the unit at position p contributes: the digit right before it (1 when
\* there is none, or it is zero) times the unit's value.
ZhUnitTerm(s, p) ==
    IF s[p] \notin DOMAIN ZH_UNITS THEN 0
    ELSE (IF p > 1 /\ s[p - 1] \in DOMAIN ZH_DIGITS /\ ZH_DIGITS[s[p - 1]] # 0
          THEN ZH_DIGITS[s[p - 1]] ELSE 1) * ZH_UNITS[s[p]]

RECURSIVE ZhUnitSum(_, _)
ZhUnitSum(s, p) == IF p = 0 THEN 0 ELSE ZhUnitSum(s, p - 1) + ZhUnitTerm(s, p)

\* The value of the accumulate algorithm on a non-empty numeral string, by
\* position: every unit's term, plus a final digit no unit follows.
ZhExpected(s) ==
    ZhUnitSum(s, Len(s)) +
    (IF s[Len(s)] \in DOMAIN ZH_DIGITS THEN ZH_DIGITS[s[Len(s)]] ELSE 0)

\* C1: zh_to_int returns the value of the left-to-right accumulate algorithm
\* for every non-empty string over the digit and unit characters, parses a
\* pure ASCII digit string directly, and maps the canonical numeral of every
\* n in 1..999 to n.
C1_ZhToIntAccumulates ==
    pc = "zh_to_int" =>
        /\ (arg # << >> /\ \A i \in 1..Len(arg) : arg[i] \in ZhChars)
               => (exc = "" /\ ret = Some(ZhExpected(arg)))
        /\ IsAsciiDigits(arg) => (exc = "" /\ ret = Some(PlaceValue(arg)))
        /\ \A n \in 1..MaxNumeral :
               arg = ZhNumeral(n) => (exc = "" /\ ret = Some(n))

\* C1 witness: 二十三 has been parsed to 23.
C1_Witness ==
    pc = "zh_to_int" /\ arg = <<"zh2", "shi", "zh3">> /\ ret = Some(23)

\* the digit characters the specification lists (兩 is not among them)
SpecZhChars == (DOMAIN ZH_DIGITS \ {"liang"}) \cup DOMAIN ZH_UNITS

\* C2 as stated: zh_to_int fails on the empty input and on every string that
\* is not a pure ASCII digit string and has a character outside
\* 零〇一二三四五六七八九 and 十百.
C2_Original ==
    (/\ pc = "zh_to_int"
     /\ \/ arg = << >>
        \/ /\ ~IsAsciiDigits(arg)
           /\ \E i \in 1..Len(arg) : arg[i] \notin SpecZhChars)
        => ret = None

\* C2 (amended): zh_to_int returns the fail result when the input, with the
\* blanks around it trimmed, is empty, or is not a digit string (str.isdigit)
\* and has a character outside 零〇一二三四五六七八九兩 and 十百.
C2_ZhToIntFails ==
    LET s == Strip(arg)
    IN  (/\ pc = "zh_to_int"
         /\ \/ s = << >>
            \/ /\ ~IsDigit(s)
               /\ \E i \in 1..Len(s) : s[i] \notin ZhChars)
            => (exc = "" /\ ret = None)

\* C2 witness: 二及 has been rejected.
C2_Witness ==
    pc = "zh_to_int" /\ arg = <<"zh2", "ji">> /\ ret = None /\ exc = ""

\* "already of the form digits or digits-digits"
IsFlnoForm(s) ==
    \E k \in 1..Len(s) :
        /\ IsDecimal(SubSeq(s, 1, k))
        /\ k = Len(s) \/ (s[k + 1] = "-" /\ IsDecimal(SubSeq(s, k + 2, Len(s))))

\* The part of C3 about normalize_art alone: an id that, with the blanks
\* around it trimmed, has the form digits or digits-digits comes back as
\* trimmed; any other input comes back as the decimal string of its numeral
\* value, or fails when it has none.
C3_NormalizeArtFunction ==
    (pc = "normalize_art" /\ exc = "") =>
        IF IsFlnoForm(Strip(arg)) THEN ret = Some(Strip(arg))
        ELSE IF \E n \in 0..MaxNumeral : zh_to_int(arg) = Some(n)
             THEN /\ ret # None
                  /\ IsCanonicalDecimal(Val(ret))
                  /\ Some(PlaceValue(Val(ret))) = zh_to_int(arg)
             ELSE ret = None

\* normalize_art has kept 16-1 and turned 十六 into 16
C3_FunctionWitness ==
    pc = "normalize_art" /\ arg = <<"shi", "zh6">> /\ ret = Some(<<"1", "6">>)

\* a well-formed id: ASCII digits, or ASCII digits "-" ASCII digits
IdHyphen(s) == FindHyphen(s, 1)
IdMajorStr(s) == IF IdHyphen(s) = 0 THEN s ELSE SubSeq(s, 1, IdHyphen(s) - 1)
IdMinorStr(s) == SubSeq(s, IdHyphen(s) + 1, Len(s))
IsWellFormedId(s) ==
    /\ IsAsciiDigits(IdMajorStr(s))
    /\ IdHyphen(s) # 0 => IsAsciiDigits(IdMinorStr(s))
IdMajor(s) == PlaceValue(IdMajorStr(s))
IdMinor(s) == PlaceValue(IdMinorStr(s))

\* the result is the decimal string of n
ReturnsNumber(n) ==
    /\ ret # None
    /\ n >= 0
    /\ IsCanonicalDecimal(Val(ret))
    /\ PlaceValue(Val(ret)) = n

\* C4 as stated: minor > 0 gives major; hyphenated with minor = 0, or not
\* hyphenated with major > 1, gives major - 1; otherwise major.
C4_Original ==
    (pc = "compute_prev_flno" /\ IsWellFormedId(arg)) =>
        IF IdHyphen(arg) # 0 /\ IdMinor(arg) > 0 THEN ReturnsNumber(IdMajor(arg))
        ELSE IF IdHyphen(arg) # 0 \/ IdMajor(arg) > 1
             THEN ReturnsNumber(IdMajor(arg) - 1)
             ELSE ReturnsNumber(IdMajor(arg))

\* C4 (amended): for a well-formed id, hyphenated with minor > 0 gives major;
\* otherwise (minor = 0, or no hyphen) major > 1 gives major - 1 and
\* major <= 1 gives major unchanged.
C4_PrecedingArticleId ==
    (pc = "compute_prev_flno" /\ IsWellFormedId(arg)) =>
        IF IdHyphen(arg) # 0 /\ IdMinor(arg) > 0 THEN ReturnsNumber(IdMajor(arg))
        ELSE IF IdMajor(arg) > 1 THEN ReturnsNumber(IdMajor(arg) - 1)
        ELSE ReturnsNumber(IdMajor(arg))

\* C4 witness: the predecessor of 1-0 is 1 (minor = 0 and major = 1).
C4_Witness ==
    pc = "compute_prev_flno" /\ arg = <<"1", "-", "0">> /\ ret = Some(<<"1">>)

(***************************************************************************)
(* Properties of extract_references (SpecRef).                             *)
(***************************************************************************)
InExtract == pc = "extract_references"

\* the references returned
HasRef(r) == \E j \in 1..Len(ret) : ret[j] = r

\* a reference equal to r in all but the matched text, which is that of the
\* first citation that named the target
HasRefTo(r) ==
    \E j \in 1..Len(ret) : [ret[j] EXCEPT !.hit = << >>] = [r EXCEPT !.hit = << >>]

\* the input is the one line p
OnlyLine(p) == arg.lines = <<Line(p)>>

\* the matches of REF_PATTERNS[k] in line i of the input
Matches(i, k) == FindIter(arg.lines[i].text, 1, Pattern(k))

\* the Explicit reference to article id with the one qualifier n at level L
LevelRef(id, L, n, hit) ==
    [kind |-> "explicit", flno |-> id,
     item |-> IF L = "xiang" THEN Some(n) ELSE None,
     kuan |-> IF L = "kuan" THEN Some(n) ELSE None,
     mu |-> IF L = "mu" THEN Some(n) ELSE None,
     hit |-> hit]

\* the Explicit reference to article id with no qualifier
BareRef(id, hit) ==
    [kind |-> "explicit", flno |-> id, item |-> None, kuan |-> None,
     mu |-> None, hit |-> hit]

\* C3 as stated, its part about references: a candidate match of a citation
\* pattern whose article id fails normalisation produces no Reference.
C3_Original ==
    InExtract =>
        \A i \in 1..Len(arg.lines), k \in 0..6 :
            \A n \in 1..Len(Matches(i, k)) :
                LET m == Matches(i, k)[n]
                IN  normalize_art(Val(m.groups[Pattern(k).art])) = None
                        => ~\E j \in 1..Len(ret) :
                               ret[j].hit = Group0(arg.lines[i].text, m)

\* the qualifier of a match of 前條(第N項|款|目)? at level L
PrevQualifier(m, L) ==
    IF m.groups["prev_kind"] = Some(<<L>>)
    THEN zh_to_int(Val(m.groups["prev_nzh"]))
    ELSE None

\* C5 as stated: every 前條 expression, with or without a qualifier, yields a
\* Relative reference to the article preceding the current one, carrying that
\* qualifier; and only such an expression yields a Relative reference.
C5_Original ==
    (InExtract /\ compute_prev_flno(arg.main_flno) # None) =>
        /\ \A i \in 1..Len(arg.lines) :
               \A n \in 1..Len(Matches(i, 7)) :
                   LET m == Matches(i, 7)[n]
                   IN  HasRef([kind |-> "prev",
                               flno |-> Val(compute_prev_flno(arg.main_flno)),
                               item |-> PrevQualifier(m, "xiang"),
                               kuan |-> PrevQualifier(m, "kuan"),
                               mu |-> PrevQualifier(m, "mu"),
                               hit |-> Group0(arg.lines[i].text, m)])
        /\ \A j \in 1..Len(ret) :
               ret[j].kind = "prev" =>
                   \E i \in 1..Len(arg.lines) :
                       \E n \in 1..Len(Matches(i, 7)) :
                           ret[j].hit = Group0(arg.lines[i].text, Matches(i, 7)[n])

\* C6 as stated: a bare citation 第A條 whose span has none of 項, 款, 目
\* yields an Explicit reference to normalize_art(A) with no qualifier.
C6_Original ==
    InExtract =>
        \A i \in 1..Len(arg.lines) :
            \A n \in 1..Len(Matches(i, 6)) :
                LET m == Matches(i, 6)[n]
                    frag == Group0(arg.lines[i].text, m)
                    art == normalize_art(Val(m.groups["art_only"]))
                IN  (~HasLevelWord(frag) /\ art # None)
                        => HasRef(BareRef(Val(art), frag))

\* C7 as stated: a line whose only citation is 第A條第Y項 yields exactly one
\* Reference, (Explicit, A, item = Y).
C7_Original ==
    InExtract =>
        \A A \in ArtSamples, y \in 1..MaxIndex :
            (A.id # None /\ OnlyLine(SinglePhrase(A, y, "xiang")))
                => ret = <<LevelRef(Val(A.id), "xiang", y,
                                    SinglePhrase(A, y, "xiang"))>>

\* C8 as stated: 第A條第Y目 yields an Explicit reference to A with subitem
\* Y and neither item nor clause.
C8_Original ==
    InExtract =>
        \A A \in ArtSamples, y \in 1..MaxIndex :
            (A.id # None /\ OnlyLine(SinglePhrase(A, y, "mu")))
                => HasRef(LevelRef(Val(A.id), "mu", y, SinglePhrase(A, y, "mu")))

\* the range patterns are REF_PATTERNS[0], [2] and [4]
RangePatterns == {0, 2, 4}

RefKey(r) == <<r.kind, r.flno, r.item, r.kuan, r.mu>>

\* what extract_references returns for the one line p
RefsOfLine(p) == extract_references(arg.main_flno, <<Line(p)>>).refs

\* C11 as stated: no two returned references have the same identity tuple,
\* and a citation phrase written twice, in one line or in two, yields the
\* references of the phrase written once.
C11_Original ==
    InExtract =>
        /\ \A i, j \in 1..Len(ret) : RefKey(ret[i]) = RefKey(ret[j]) => i = j
        /\ \A p \in CorePhrases :
               /\ arg.lines = <<Line(p \o p)>> => ret = RefsOfLine(p)
               /\ arg.lines = <<Line(p), Line(p)>> => ret = RefsOfLine(p)

\* The part of C11 about the returned list alone: no two references have the
\* same identity tuple, and a phrase repeated on a second line adds nothing.
C11_UniqueIdentity ==
    InExtract =>
        /\ \A i, j \in 1..Len(ret) : RefKey(ret[i]) = RefKey(ret[j]) => i = j
        /\ \A p \in CorePhrases :
               arg.lines = <<Line(p), Line(p)>> => ret = RefsOfLine(p)

\* the number of qualifiers a reference carries
QualifierCount(r) ==
    (IF r.item # None THEN 1 ELSE 0) + (IF r.kuan # None THEN 1 ELSE 0)
        + (IF r.mu # None THEN 1 ELSE 0)

\* C12: every returned reference has at most one of item, kuan and mu set.
C12_AtMostOneQualifier ==
    InExtract => \A j \in 1..Len(ret) : QualifierCount(ret[j]) <= 1

\* C12 witness: a returned list with a sub-clause reference and a reference
\* without qualifier.
C12_Witness ==
    /\ InExtract
    /\ \E j \in 1..Len(ret) : ret[j].kuan # None /\ QualifierCount(ret[j]) = 1
    /\ \E j \in 1..Len(ret) : QualifierCount(ret[j]) = 0

\* C15 as stated: for a current-article id that is not digits or
\* digits-digits, extract_references fails and returns no reference list.
C15_Original ==
    (InExtract /\ ~IsWellFormedId(arg.main_flno)) => exc # ""

(***************************************************************************)
(* Properties of fetch_ref_articles and the pick functions (SpecFetch).    *)
(***************************************************************************)
InFetch == pc = "fetch_ref_articles"

Min(a, b) == IF a < b THEN a ELSE b

IsErrorEntry(e) == "error" \in DOMAIN e

\* C13: with a budget b >= 1 over n references, requests are sent and entries
\* returned for exactly the first min(n, b) references, in that order; nothing
\* is sent or returned for the others.
C13_BudgetPrefix ==
    (InFetch /\ arg.max_refs >= 1) =>
        /\ Len(ret) = Min(Len(arg.refs), arg.max_refs)
        /\ Len(net) = Min(Len(arg.refs), arg.max_refs)
        /\ \A i \in 1..Min(Len(arg.refs), arg.max_refs) :
               /\ ret[i].ref_text = arg.refs[i].hit
               /\ net[i].flno = arg.refs[i].flno

\* C13 witness: three references and a budget of two have given two entries.
C13_Witness ==
    /\ InFetch
    /\ arg.max_refs = 2 /\ Len(arg.refs) = 3
    /\ Len(ret) = 2 /\ Len(net) = 2
    /\ ret[2].ref_text = arg.refs[2].hit

\* C14 as stated: with a budget <= 0, fetch_ref_articles fails and returns
\* no result list.
C14_Original ==
    (InFetch /\ arg.max_refs <= 0) => exc # ""

\* the entry of reference r answered by a, were it the only reference
AloneEntry(r, a) == fetch_ref_articles(arg.pcode, <<r>>, 1, <<a>>).results[1]

\* C16: the entry of a reference whose fetch failed has ref_text, target_flno
\* and error and nothing else; the loop goes on after a failure, so that
\* every reference within the budget has an entry; and every entry is the
\* one its reference and its answer give alone, whatever failed around it.
C16_FailureIsolation ==
    InFetch =>
        /\ \A i \in 1..Len(ret) :
               arg.answers[i].kind # "page" =>
                   /\ DOMAIN ret[i] = {"ref_text", "target_flno", "error"}
                   /\ ret[i].ref_text = arg.refs[i].hit
                   /\ ret[i].target_flno = Some(arg.refs[i].flno)
                   /\ ret[i].error = arg.answers[i].kind
        /\ arg.max_refs >= Len(arg.refs) => Len(ret) = Len(arg.refs)
        /\ \A i \in 1..Len(ret) : ret[i] = AloneEntry(arg.refs[i], arg.answers[i])

\* C16 witness: of three references the second failed, and the third has
\* its page.
C16_Witness ==
    /\ InFetch
    /\ Len(ret) = 3
    /\ arg.answers[1].kind = "page" /\ arg.answers[2].kind = "HTTPError"
    /\ arg.answers[3].kind = "page"
    /\ IsErrorEntry(ret[2]) /\ ~IsErrorEntry(ret[1]) /\ ~IsErrorEntry(ret[3])

\* C17: the i-th entry is the outcome, page or error, of the i-th request,
\* which was the one for the i-th reference; every request has its entry.
C17_OutputOrder ==
    InFetch =>
        /\ Len(ret) = Len(net)
        /\ \A i \in 1..Len(ret) :
               /\ net[i].flno = arg.refs[i].flno
               /\ ret[i].ref_text = arg.refs[i].hit
               /\ IsErrorEntry(ret[i]) <=> arg.answers[i].kind # "page"
               /\ IsErrorEntry(ret[i]) => ret[i].target_flno = Some(arg.refs[i].flno)
               /\ ~IsErrorEntry(ret[i]) =>
                      /\ ret[i].url = net[i]
                      /\ ret[i].item_index = arg.refs[i].item
                      /\ ret[i].kuan_index = arg.refs[i].kuan
                      /\ ret[i].mu_index = arg.refs[i].mu

\* C17 witness: the first of three fetches failed and the entries of the
\* other two follow it in order.
C17_Witness ==
    /\ InFetch
    /\ Len(ret) = 3
    /\ arg.answers[1].kind = "RuntimeError" /\ IsErrorEntry(ret[1])
    /\ arg.answers[2].kind = "page" /\ ret[2].ref_text = arg.refs[2].hit
    /\ ret[3].ref_text = arg.refs[3].hit

\* the number of lines satisfying P, and the text of the i-th of them
CountWhere(lines, P(_)) == Cardinality({k \in 1..Len(lines) : P(lines[k])})

NthWhere(lines, P(_), i) ==
    lines[CHOOSE j \in 1..Len(lines) :
              P(lines[j]) /\ Cardinality({k \in 1..j : P(lines[k])}) = i].text

Enumerated(L) == L.numbered

\* C18: pick_item_text for an index i >= 1 gives the i-th enumerated line
\* if there are that many, else the i-th line of all if there are that many,
\* else nothing.
C18_ItemSelection ==
    (pc = "pick_item_text" /\ arg.idx # None /\ Val(arg.idx) >= 1) =>
        ret = IF Val(arg.idx) <= CountWhere(arg.lines, Enumerated)
              THEN Some(NthWhere(arg.lines, Enumerated, Val(arg.idx)))
              ELSE IF Val(arg.idx) <= Len(arg.lines)
                   THEN Some(arg.lines[Val(arg.idx)].text)
                   ELSE None

\* C18 witness: with fewer enumerated lines than the index, the line of all
\* lines at the index was given, and it is not an enumerated one.
C18_Witness ==
    /\ pc = "pick_item_text"
    /\ arg.idx # None /\ Val(arg.idx) >= 1 /\ Val(arg.idx) <= Len(arg.lines)
    /\ CountWhere(arg.lines, Enumerated) >= 1
    /\ CountWhere(arg.lines, Enumerated) < Val(arg.idx)
    /\ ~arg.lines[Val(arg.idx)].numbered
    /\ ret = Some(arg.lines[Val(arg.idx)].text)

\* a text beginning with n >= 1 characters of class C followed by one of D
BeginsWithRun(text, from, C, D) ==
    \E n \in from..Len(text) :
        /\ \A k \in from..n : text[k] \in C
        /\ n + 1 <= Len(text) /\ text[n + 1] \in D

\* Chinese numeral + 、, or digits + period
HasClausePrefix(L) ==
    \/ BeginsWithRun(L.text, 1, NumeralClass, {"dun"})
    \/ BeginsWithRun(L.text, 1, DecimalChars, {"dot", "fwdot"})

\* parenthesized Chinese numeral, or digits + period
HasSubitemPrefix(L) ==
    \/ /\ L.text # << >> /\ L.text[1] \in {"lparen", "flparen"}
       /\ BeginsWithRun(L.text, 2, NumeralClass, {"rparen", "frparen"})
    \/ BeginsWithRun(L.text, 1, DecimalChars, {"dot", "fwdot"})

\* C19: pick_kuan_text and pick_mu_text for an index i >= 1 give the i-th
\* line, in order, of those beginning with the level's prefix, and nothing
\* when there are fewer than i of them, whatever the number of lines.
C19_PrefixSelection ==
    /\ (pc = "pick_kuan_text" /\ arg.idx # None /\ Val(arg.idx) >= 1) =>
           ret = IF Val(arg.idx) <= CountWhere(arg.lines, HasClausePrefix)
                 THEN Some(NthWhere(arg.lines, HasClausePrefix, Val(arg.idx)))
                 ELSE None
    /\ (pc = "pick_mu_text" /\ arg.idx # None /\ Val(arg.idx) >= 1) =>
           ret = IF Val(arg.idx) <= CountWhere(arg.lines, HasSubitemPrefix)
                 THEN Some(NthWhere(arg.lines, HasSubitemPrefix, Val(arg.idx)))
                 ELSE None

\* C19 witness: there is a line at the index, and a sub-clause line before
\* it, but fewer sub-clause lines than the index: nothing was selected.
C19_Witness ==
    /\ pc = "pick_kuan_text"
    /\ arg.idx # None /\ Val(arg.idx) >= 1 /\ Val(arg.idx) <= Len(arg.lines)
    /\ CountWhere(arg.lines, HasClausePrefix) >= 1
    /\ CountWhere(arg.lines, HasClausePrefix) < Val(arg.idx)
    /\ ret = None

\* the text the qualifier of reference r selects in lines
Requested(lines, r) ==
    IF r.item # None THEN pick_item_text(lines, r.item)
    ELSE IF r.kuan # None THEN pick_kuan_text(lines, r.kuan)
    ELSE IF r.mu # None THEN pick_mu_text(lines, r.mu)
    ELSE None

\* C20: in the entry of a fetched reference exactly one of selected_text and
\* lines is set: without qualifier, or with an index out of range, it is
\* lines, holding all lines of the target; otherwise it is selected_text.
C20_SelectedOrLines ==
    InFetch =>
        \A i \in 1..Len(ret) :
            arg.answers[i].kind = "page" =>
                /\ (ret[i].selected_text = None) <=> (ret[i].lines # None)
                /\ Requested(arg.answers[i].lines, arg.refs[i]) = None =>
                       /\ ret[i].selected_text = None
                       /\ ret[i].lines = Some(arg.answers[i].lines)
                /\ ret[i].selected_text # None =>
                       /\ ret[i].lines = None
                       /\ ret[i].selected_text
                              = Requested(arg.answers[i].lines, arg.refs[i])

\* C20 witness: one entry has its selected text and no lines, another, of a
\* reference with a qualifier out of range, has all lines.
C20_Witness ==
    /\ InFetch
    /\ Len(ret) >= 2
    /\ ~IsErrorEntry(ret[1]) /\ ~IsErrorEntry(ret[2])
    /\ ret[1].selected_text # None /\ ret[1].lines = None
    /\ QualifierCount(arg.refs[2]) = 1
    /\ ret[2].selected_text = None /\ ret[2].lines = Some(arg.answers[2].lines)

\* the level of the qualifier of reference r, as selected_level names it
QualifierLevel(r) ==
    IF r.item # None THEN Some("item")
    ELSE IF r.kuan # None THEN Some("kuan")
    ELSE IF r.mu # None THEN Some("mu")
    ELSE None

\* C28 as stated: in the entry of a fetched reference selected_level is set
\* exactly when selected_text is, and then names the level of the selection.
C28_Original ==
    InFetch =>
        \A i \in 1..Len(ret) :
            ~IsErrorEntry(ret[i]) =>
                /\ (ret[i].selected_level # None) <=> (ret[i].selected_text # None)
                /\ ret[i].selected_text # None =>
                       ret[i].selected_level = QualifierLevel(arg.refs[i])

\* The part of C28 that holds: a selected text comes with the level of the
\* qualifier that selected it.
C28_LevelOfSelectedText ==
    InFetch =>
        \A i \in 1..Len(ret) :
            (~IsErrorEntry(ret[i]) /\ ret[i].selected_text # None) =>
                ret[i].selected_level = QualifierLevel(arg.refs[i])

\* C30 as stated: the target_flno of every entry, of a fetched reference or
\* of a failed one, is the flno of its reference.
C30_Original ==
    InFetch =>
        \A i \in 1..Len(ret) : ret[i].target_flno = Some(arg.refs[i].flno)

(***************************************************************************)
(* Properties of parse_reg_content and parse_law_content (SpecParse).      *)
(***************************************************************************)
InParse == pc \in {"parse_reg_content", "parse_law_content"} /\ ret # None

\* every child is looked at: parse_reg_content, or max_articles = 0
Unlimited == pc = "parse_reg_content" \/ (pc = "parse_law_content" /\ arg.max_articles = 0)

Nodes == Val(arg.root)

Out == Val(ret)

\* the articles of a chapter: its own, then those of its sections in order
ChapterArticles(ch) ==
    ch.articles \o ConcatAll([i \in 1..Len(ch.sections) |-> ch.sections[i].articles])

\* the tree read chapter by chapter
TreeArticles(chapters) ==
    ConcatAll([i \in 1..Len(chapters) |-> ChapterArticles(chapters[i])])

Occurrences(a, s) == Cardinality({i \in 1..Len(s) : s[i] = a})

SeqRange(s) == {s[i] : i \in 1..Len(s)}

IsPrefixOf(s, u) == Len(s) <= Len(u) /\ s = SubSeq(u, 1, Len(s))

\* a row with its anchor and its box
IsArticleRow(n) == n.kind = "row" /\ n.no_a # None /\ n.art_box # None

IsChapterNode(n) == n.kind = "chapter"

IsSectionNode(n) == n.kind = "section"

\* the displayed numbers of the article rows of nodes, in source order
RowNumbers(nodes) ==
    [i \in 1..Len(SelectSeq(nodes, IsArticleRow)) |->
        Strip(Val(SelectSeq(nodes, IsArticleRow)[i].no_a).text)]

\* the titles of the headings of one kind in nodes, in source order
ChapterTitles(nodes) ==
    [i \in 1..Len(SelectSeq(nodes, IsChapterNode)) |->
        Strip(SelectSeq(nodes, IsChapterNode)[i].title)]

SectionTitles(nodes) ==
    [i \in 1..Len(SelectSeq(nodes, IsSectionNode)) |->
        Strip(SelectSeq(nodes, IsSectionNode)[i].title)]

NumbersOf(articles) == [i \in 1..Len(articles) |-> articles[i].no_text]

TitlesOf(s) == [i \in 1..Len(s) |-> s[i].title]

HasTitle(c) == c.title # << >>

\* C21: every article of the flat list is there once and is at one place of
\* the tree, directly under a chapter or under a section; the tree and the
\* flat list hold the same articles.
C21_Ownership ==
    InParse =>
        /\ \A i \in 1..Len(Out.flat_articles) :
               /\ Occurrences(Out.flat_articles[i], Out.flat_articles) = 1
               /\ Occurrences(Out.flat_articles[i], TreeArticles(Out.chapters)) = 1
        /\ Len(TreeArticles(Out.chapters)) = Len(Out.flat_articles)
        /\ SeqRange(TreeArticles(Out.chapters)) = SeqRange(Out.flat_articles)

\* C21 witness: one article directly under a chapter and one under a section
\* of it, both in the flat list.
C21_Witness ==
    /\ InParse
    /\ Len(Out.flat_articles) = 2
    /\ Len(Out.chapters) = 1
    /\ Len(Out.chapters[1].articles) = 1
    /\ Len(Out.chapters[1].sections) = 1
    /\ Len(Out.chapters[1].sections[1].articles) = 1

\* C22: the flat list is in source order of the article rows, chapters and
\* sections are in source order of their headings, and the tree read chapter
\* by chapter is the flat list.
C22_OrderPreserved ==
    InParse =>
        /\ TreeArticles(Out.chapters) = Out.flat_articles
        /\ IsPrefixOf(NumbersOf(Out.flat_articles), RowNumbers(Nodes))
        /\ IsPrefixOf(TitlesOf(SelectSeq(Out.chapters, HasTitle)), ChapterTitles(Nodes))
        /\ IsPrefixOf(ConcatAll([i \in 1..Len(Out.chapters) |->
                                    TitlesOf(Out.chapters[i].sections)]),
                      SectionTitles(Nodes))
        /\ Unlimited =>
               /\ NumbersOf(Out.flat_articles) = RowNumbers(Nodes)
               /\ TitlesOf(SelectSeq(Out.chapters, HasTitle)) = ChapterTitles(Nodes)
               /\ ConcatAll([i \in 1..Len(Out.chapters) |->
                                TitlesOf(Out.chapters[i].sections)])
                      = SectionTitles(Nodes)

\* C22 witness: an article before the first chapter heading and two after
\* it, in this order in the flat list.
C22_Witness ==
    /\ InParse
    /\ Len(Out.flat_articles) = 3
    /\ Len(Out.chapters) = 2
    /\ Out.chapters[1].articles = <<Out.flat_articles[1]>>
    /\ Out.chapters[2].articles = <<Out.flat_articles[2], Out.flat_articles[3]>>

\* the position of the first chapter heading, or one past the last child
FirstChapter ==
    IF \E p \in 1..Len(Nodes) : IsChapterNode(Nodes[p])
    THEN CHOOSE p \in 1..Len(Nodes) :
             IsChapterNode(Nodes[p]) /\ \A q \in 1..(p - 1) : ~IsChapterNode(Nodes[q])
    ELSE Len(Nodes) + 1

\* the children before the first chapter heading
Untitled == SubSeq(Nodes, 1, FirstChapter - 1)

\* there is an article row or a section heading before any chapter heading
HasUntitledContent ==
    \E p \in 1..Len(Untitled) : IsArticleRow(Untitled[p]) \/ IsSectionNode(Untitled[p])

\* C23: when an article row or a section heading comes before any chapter
\* heading, the first chapter of the tree has the title "", it is the only
\* chapter made for content without a chapter, and it holds all the articles
\* and sections that come before the first chapter heading, the articles
\* being the first of the flat list; without such content there is no
\* chapter with the title "".
C23_SyntheticChapter ==
    (InParse /\ Unlimited) =>
        /\ HasUntitledContent =>
               /\ Out.chapters # << >>
               /\ Out.chapters[1].title = << >>
               /\ \A j \in 2..Len(Out.chapters) : Out.chapters[j].title # << >>
               /\ NumbersOf(ChapterArticles(Out.chapters[1])) = RowNumbers(Untitled)
               /\ TitlesOf(Out.chapters[1].sections) = SectionTitles(Untitled)
               /\ IsPrefixOf(ChapterArticles(Out.chapters[1]), Out.flat_articles)
        /\ ~HasUntitledContent =>
               \A j \in 1..Len(Out.chapters) : Out.chapters[j].title # << >>

\* C23 witness: two sections, each with its article, before any chapter
\* heading: one chapter with the title "" holds both.
C23_Witness ==
    /\ InParse /\ Unlimited
    /\ Len(Out.chapters) = 1
    /\ Out.chapters[1].title = << >>
    /\ Len(Out.chapters[1].sections) = 2
    /\ Out.chapters[1].sections[1].articles # << >>
    /\ Out.chapters[1].sections[2].articles # << >>

\* the position of the last heading of a kind before p and after q, or 0
LastChapterBefore(p) ==
    IF \E q \in 1..(p - 1) : IsChapterNode(Nodes[q])
    THEN CHOOSE q \in 1..(p - 1) :
             IsChapterNode(Nodes[q]) /\ \A x \in (q + 1)..(p - 1) : ~IsChapterNode(Nodes[x])
    ELSE 0

LastSectionBetween(q, p) ==
    IF \E s \in (q + 1)..(p - 1) : IsSectionNode(Nodes[s])
    THEN CHOOSE s \in (q + 1)..(p - 1) :
             IsSectionNode(Nodes[s]) /\ \A x \in (s + 1)..(p - 1) : ~IsSectionNode(Nodes[x])
    ELSE 0

\* the position of the j-th article row
RowPosition(j) ==
    CHOOSE p \in 1..Len(Nodes) :
        /\ IsArticleRow(Nodes[p])
        /\ Cardinality({x \in 1..p : IsArticleRow(Nodes[x])}) = j

\* what the parser is in after the first k children
PrefixParse(k) ==
    IF pc = "parse_reg_content"
    THEN RegLoop(InitParse, SubSeq(Nodes, 1, k), 1)
    ELSE LawLoop(InitParse, SubSeq(Nodes, 1, k), 1, arg.summary_mode,
                 arg.max_articles)

\* C24: an article row whose last heading before it is a chapter heading is
\* in the list of that chapter itself; and a chapter that a later chapter
\* heading has closed, or a section that a later section heading has closed,
\* is in the result as it was when it was closed.
C24_NoBacktracking ==
    InParse =>
        /\ Unlimited =>
               \A j \in 1..Len(Out.flat_articles) :
                   (/\ LastChapterBefore(RowPosition(j)) # 0
                    /\ LastSectionBetween(LastChapterBefore(RowPosition(j)),
                                          RowPosition(j)) = 0)
                       => \E c \in 1..Len(Out.chapters) :
                              /\ Out.chapters[c].title
                                     = Strip(Nodes[LastChapterBefore(RowPosition(j))].title)
                              /\ Out.flat_articles[j] \in SeqRange(Out.chapters[c].articles)
        /\ \A k \in 0..Len(Nodes) :
               \A P \in {PrefixParse(k).chapters} :
                   /\ \A c \in 1..(Len(P) - 1) : Out.chapters[c] = P[c]
                   /\ P # << >> =>
                          \A s \in 1..(Len(P[Len(P)].sections) - 1) :
                              Out.chapters[Len(P)].sections[s] = P[Len(P)].sections[s]

\* C24 witness: a chapter with an empty section, closed by a second chapter
\* heading; the article after it is in the second chapter itself.
C24_Witness ==
    /\ InParse
    /\ Len(Out.chapters) = 2
    /\ Len(Out.chapters[1].sections) = 1
    /\ Out.chapters[1].sections[1].articles = << >>
    /\ Out.chapters[1].articles = << >>
    /\ Out.chapters[2].sections = << >>
    /\ Len(Out.chapters[2].articles) = 1

\* C25 as stated: the chapter of an article is the title of the last chapter
\* heading before its row, or null when there is none; its section is the
\* title of the last section heading since that chapter heading, or null.
C25_Original ==
    (InParse /\ Unlimited) =>
        \A j \in 1..Len(Out.flat_articles) :
            /\ Out.flat_articles[j].chapter
                   = IF LastChapterBefore(RowPosition(j)) = 0 THEN None
                     ELSE Some(Strip(Nodes[LastChapterBefore(RowPosition(j))].title))
            /\ Out.flat_articles[j].section
                   = IF LastSectionBetween(LastChapterBefore(RowPosition(j)),
                                           RowPosition(j)) = 0
                     THEN None
                     ELSE Some(Strip(Nodes[LastSectionBetween(
                                               LastChapterBefore(RowPosition(j)),
                                               RowPosition(j))].title))

\* The part of C25 that holds: the section of every article, and the chapter
\* of an article that has a chapter heading before it; without one the
\* chapter is null or "".
C25_TitlesAfterHeading ==
    (InParse /\ Unlimited) =>
        \A j \in 1..Len(Out.flat_articles) :
            /\ LastChapterBefore(RowPosition(j)) # 0 =>
                   Out.flat_articles[j].chapter
                       = Some(Strip(Nodes[LastChapterBefore(RowPosition(j))].title))
            /\ LastChapterBefore(RowPosition(j)) = 0 =>
                   Out.flat_articles[j].chapter \in {None, Some(<< >>)}
            /\ Out.flat_articles[j].section
                   = IF LastSectionBetween(LastChapterBefore(RowPosition(j)),
                                           RowPosition(j)) = 0
                     THEN None
                     ELSE Some(Strip(Nodes[LastSectionBetween(
                                               LastChapterBefore(RowPosition(j)),
                                               RowPosition(j))].title))

\* what the call returns for the children nodes
ParseOf(nodes) ==
    IF pc = "parse_reg_content" THEN parse_reg_content(Some(nodes)).result
    ELSE parse_law_content(Some(nodes), arg.summary_mode, arg.max_articles).result

\* a row without anchor, without name on its anchor, or without box
LacksIdOrBox(n) ==
    n.kind = "row"
        /\ (n.no_a = None \/ n.art_box = None \/ AnchorFlno(Val(n.no_a)) = << >>)

HasIdAndBox(n) == ~LacksIdOrBox(n)

\* a row without anchor or without box
LacksAnchorOrBox(n) == n.kind = "row" /\ (n.no_a = None \/ n.art_box = None)

HasAnchorAndBox(n) == ~LacksAnchorOrBox(n)

\* C26 as stated: a row missing its identifier or its content container
\* changes nothing, the result being that of the document without it; and
\* no article of the result has an empty id.
C26_Original ==
    InParse =>
        /\ ret = ParseOf(SelectSeq(Nodes, HasIdAndBox))
        /\ \A j \in 1..Len(Out.flat_articles) : Out.flat_articles[j].flno # << >>

\* The part of C26 that holds: a row without anchor or without box changes
\* nothing, the result being that of the document without it.
C26_SkipRule ==
    InParse => ret = ParseOf(SelectSeq(Nodes, HasAnchorAndBox))

\* C27: without div.law-reg-content the parser raises RuntimeError and
\* returns nothing; with it the parser returns its result.
C27_StructuralError ==
    pc \in {"parse_reg_content", "parse_law_content"} =>
        /\ arg.root = None => (exc = "RuntimeError" /\ ret = None)
        /\ arg.root # None => (exc = "" /\ ret # None)

\* C27 witness: parse_reg_content of a page without the block has raised.
C27_Witness ==
    /\ pc = "parse_reg_content"
    /\ arg.root = None
    /\ exc = "RuntimeError" /\ ret = None

\* what parse_law_content returns without limit
FullParse == Val(parse_law_content(arg.root, arg.summary_mode, 0).result)

\* C29: with max_articles = n > 0 the flat list is the first min(n, total)
\* articles of the unlimited result, meta.total_parsed is its length, and the
\* tree is the unlimited tree cut after these articles, each of them at one
\* place; with max_articles = 0 every article row is returned.
C29_ArticleLimit ==
    (pc = "parse_law_content" /\ ret # None) =>
        /\ arg.max_articles > 0 =>
               \A Full \in {FullParse} :
                   /\ Len(Out.flat_articles)
                          = Min(arg.max_articles, Len(RowNumbers(Nodes)))
                   /\ Out.flat_articles
                          = SubSeq(Full.flat_articles, 1,
                                   Min(arg.max_articles, Len(Full.flat_articles)))
                   /\ Out.meta # None
                   /\ Val(Out.meta).total_parsed = Len(Out.flat_articles)
                   /\ TreeArticles(Out.chapters) = Out.flat_articles
                   /\ Len(Out.chapters) <= Len(Full.chapters)
                   /\ \A c \in 1..Len(Out.chapters) :
                          /\ Out.chapters[c].title = Full.chapters[c].title
                          /\ IsPrefixOf(Out.chapters[c].articles,
                                        Full.chapters[c].articles)
                          /\ IsPrefixOf(TitlesOf(Out.chapters[c].sections),
                                        TitlesOf(Full.chapters[c].sections))
                          /\ IsPrefixOf(ChapterArticles(Out.chapters[c]),
                                        ChapterArticles(Full.chapters[c]))
        /\ arg.max_articles = 0 =>
               NumbersOf(Out.flat_articles) = RowNumbers(Nodes)

\* C29 witness: three article rows and max_articles = 2 have given the
\* first two.
C29_Witness ==
    /\ pc = "parse_law_content" /\ ret # None
    /\ arg.max_articles = 2
    /\ Len(RowNumbers(Nodes)) = 3
    /\ NumbersOf(Out.flat_articles) = SubSeq(RowNumbers(Nodes), 1, 2)
    /\ Val(Out.meta).total_parsed = 2

=============================================================================
